---- MODULE Spec2Model ----
(***************************************************************************)
(* A model of the 6502 interpreter of mark-keaton/nes-emulator: the       *)
(* memory (cpu/memory.rs), the status register (cpu/processor_status.rs), *)
(* the addressing resolver (cpu/opscodes/addressing_mode.rs), the         *)
(* instruction handlers (cpu/opscodes/*.rs) and the CPU with its          *)
(* load / reset / run operations (cpu.rs).                                 *)
(*                                                                         *)
(* Bytes are naturals below 256 and addresses naturals below 65536; every *)
(* wrapping operation of the source is written with its modulus.  A Rust  *)
(* panic is modelled as the value of the field `panic` of a CPU value     *)
(* ("none" while there is none).  The memory array is kept sparsely: the  *)
(* function `memory` holds the cells that are not zero, every other cell  *)
(* of the array reads as zero (Memory::new fills the array with zeros).   *)
(***************************************************************************)
EXTENDS Integers, Naturals, Sequences, FiniteSets, TLC

VARIABLES
    register_a,       \* CPU.register_a
    register_s,       \* CPU.register_s
    register_x,       \* CPU.register_x
    register_y,       \* CPU.register_y
    status,           \* CPU.status (the P register)
    program_counter,  \* CPU.program_counter
    memory,           \* CPU.memory, the cells that are not zero
    control,          \* "idle" (no call in progress), "running" (inside run), "panicked"
    panic,            \* the panic that ended the process, "none" before
    overflow_checks,  \* the build profile: TRUE when integer overflow panics (debug)
    calls,            \* the number of calls made on the CPU so far
    last_call,        \* the latest call made on the CPU, with its arguments
    last              \* the opcode fetched by the latest loop iteration of run, and where

vars == <<register_a, register_s, register_x, register_y, status, program_counter,
          memory, control, panic, overflow_checks, calls, last_call, last>>

(***************************************************************************)
(* Program constants                                                       *)
(***************************************************************************)
\* The length of the array in `pub struct Memory(pub [u8; 0xFFFF])`.
MemSize == 65535
\* The origin of the program image in Memory::load_program.
ProgramOrigin == 32768
\* CPU::RESET_VECTOR.
RESET_VECTOR == 65532
\* The stack page base in Memory::push_to_stack.
StackBase == 256

Byte == 0..255
\* The number of values of a u16: addresses and the program counter wrap at it.
Word16 == 65536

\* The panics of the program, by their messages.
IndexPanic == "index out of bounds"
SlicePanic == "range end index out of range for slice"
UnknownOpcodePanic == "OpCode is not recognized"
AddOverflowPanic == "attempt to add with overflow"
TodoPanic == "not yet implemented"
ModePanic == "mode is not supported"

(***************************************************************************)
(* Bit arithmetic on bytes                                                 *)
(***************************************************************************)
RECURSIVE BitAndN(_, _, _)
BitAndN(a, b, n) ==
    IF n = 0 THEN 0
    ELSE (IF a % 2 = 1 /\ b % 2 = 1 THEN 1 ELSE 0) + 2 * BitAndN(a \div 2, b \div 2, n - 1)

RECURSIVE BitOrN(_, _, _)
BitOrN(a, b, n) ==
    IF n = 0 THEN 0
    ELSE (IF a % 2 = 1 \/ b % 2 = 1 THEN 1 ELSE 0) + 2 * BitOrN(a \div 2, b \div 2, n - 1)

RECURSIVE BitXorN(_, _, _)
BitXorN(a, b, n) ==
    IF n = 0 THEN 0
    ELSE (IF a % 2 # b % 2 THEN 1 ELSE 0) + 2 * BitXorN(a \div 2, b \div 2, n - 1)

\* u8 & u8, u8 | u8, u8 ^ u8
And8(a, b) == BitAndN(a, b, 8)
Or8(a, b) == BitOrN(a, b, 8)
Xor8(a, b) == BitXorN(a, b, 8)

Pow2(i) == CASE i = 0 -> 1 [] i = 1 -> 2 [] i = 2 -> 4 [] i = 3 -> 8
             [] i = 4 -> 16 [] i = 5 -> 32 [] i = 6 -> 64 [] i = 7 -> 128

\* BitwiseU8::bit_is_set_at: self & (1 << index) != 0
bit_is_set_at(v, index) == (v \div Pow2(index)) % 2 = 1
bit_0_is_set(v) == bit_is_set_at(v, 0)
bit_6_is_set(v) == bit_is_set_at(v, 6)
bit_7_is_set(v) == bit_is_set_at(v, 7)

\* Additions that do not wrap: the sum as a wider integer.
add8_without_wrap(a, b) == a + b
add16_without_wrap(a, b) == a + b

\* u8::wrapping_add, u8::wrapping_sub, u16::wrapping_add
wrapping_add8(a, b) == (a + b) % 256
wrapping_sub8(a, b) == (a - b + 256) % 256
wrapping_add16(a, b) == (a + b) % Word16

\* `x as i8 as i16`: the byte read as a two's-complement number
as_i8(b) == IF b >= 128 THEN b - 256 ELSE b

\* u16::from_le_bytes([lo, hi]) and u16::to_le_bytes
from_le_bytes(lo, hi) == hi * 256 + lo
to_le_bytes(data) == <<data % 256, data \div 256>>

(***************************************************************************)
(* ProcessorStatus                                                         *)
(***************************************************************************)
\* A set_bit_at that adds the mask to the register.
set_bit_at_by_adding(p, index) == (p + Pow2(index)) % 256

\* ProcessorStatus::set_bit_at: self.0 | mask(index)
set_bit_at(p, index) == IF bit_is_set_at(p, index) THEN p ELSE p + Pow2(index)

\* An unset_bit_at that subtracts the mask from the register.
unset_bit_at_by_subtracting(p, index) == (p + 256 - Pow2(index)) % 256

\* ProcessorStatus::unset_bit_at: self.0 & ~mask(index)
unset_bit_at(p, index) == IF bit_is_set_at(p, index) THEN p - Pow2(index) ELSE p

get_carry_flag(p) == IF bit_is_set_at(p, 0) THEN 1 ELSE 0
get_zero_flag(p) == IF bit_is_set_at(p, 1) THEN 1 ELSE 0
get_overflow_flag(p) == IF bit_is_set_at(p, 6) THEN 1 ELSE 0
get_negative_flag(p) == IF bit_is_set_at(p, 7) THEN 1 ELSE 0

set_carry_flag(p, state) == IF state THEN set_bit_at(p, 0) ELSE unset_bit_at(p, 0)
set_zero_flag(p, state) == IF state THEN set_bit_at(p, 1) ELSE unset_bit_at(p, 1)
set_overflow_flag(p, state) == IF state THEN set_bit_at(p, 6) ELSE unset_bit_at(p, 6)
set_negative_flag(p, state) == IF state THEN set_bit_at(p, 7) ELSE unset_bit_at(p, 7)

(***************************************************************************)
(* Memory                                                                  *)
(***************************************************************************)
\* The bounds check of `self.0[addr as usize]`.
InBounds(addr) == addr < MemSize

\* Memory::new: every cell zero.
NewMemory == [a \in {} |-> 0]

\* Memory::read, for an index inside the array.
read(mem, addr) == IF addr \in DOMAIN mem THEN mem[addr] ELSE 0

\* Memory::write, for an index inside the array.
write(mem, addr, data) ==
    IF data = 0
    THEN [a \in DOMAIN mem \ {addr} |-> mem[a]]
    ELSE [a \in DOMAIN mem \cup {addr} |-> IF a = addr THEN data ELSE mem[a]]

\* Whether Memory::read_u16 / write_u16 at addr stay inside the array:
\* they index addr and addr.wrapping_add(1).
InBounds16(addr) == InBounds(addr) /\ InBounds(wrapping_add16(addr, 1))

\* Memory::read_u16
read_u16(mem, addr) == from_le_bytes(read(mem, addr), read(mem, wrapping_add16(addr, 1)))

\* Memory::write_u16
write_u16(mem, addr, data) ==
    LET le_data == to_le_bytes(data)
    IN  write(write(mem, addr, le_data[1]), wrapping_add16(addr, 1), le_data[2])

\* A call of Memory::read with any u16: the index is checked, then the cell is read.
read_call(mem, addr) ==
    IF InBounds(addr) THEN [panic |-> "none", memory |-> mem, value |-> read(mem, addr)]
    ELSE [panic |-> IndexPanic, memory |-> mem, value |-> 0]

\* A call of Memory::write with any u16.
write_call(mem, addr, data) ==
    IF InBounds(addr) THEN [panic |-> "none", memory |-> write(mem, addr, data), value |-> 0]
    ELSE [panic |-> IndexPanic, memory |-> mem, value |-> 0]

\* A call of Memory::read_u16 with any u16: two reads, the first at addr.
read_u16_call(mem, addr) ==
    IF InBounds16(addr) THEN [panic |-> "none", memory |-> mem, value |-> read_u16(mem, addr)]
    ELSE [panic |-> IndexPanic, memory |-> mem, value |-> 0]

\* A call of Memory::write_u16 with any u16: the low byte is written at addr, then
\* the high byte at addr.wrapping_add(1); a panic at the second write leaves the first.
write_u16_call(mem, addr, data) ==
    IF InBounds16(addr) THEN [panic |-> "none", memory |-> write_u16(mem, addr, data), value |-> 0]
    ELSE IF InBounds(addr)
    THEN [panic |-> IndexPanic, memory |-> write(mem, addr, to_le_bytes(data)[1]), value |-> 0]
    ELSE [panic |-> IndexPanic, memory |-> mem, value |-> 0]

\* Memory::push_to_stack
push_to_stack(mem, stack_pointer, data) == write(mem, StackBase + stack_pointer, data)

\* Memory::pull_from_stack
pull_from_stack(mem, stack_pointer) == read(mem, StackBase + stack_pointer)

(***************************************************************************)
(* Program images (Vec<u8>), kept sparsely like the memory: `len` bytes of *)
(* which `bytes` holds those that are not zero, by index from 0.           *)
(***************************************************************************)
ImageOf(seq) ==
    [len |-> Len(seq),
     bytes |-> [i \in {j \in 0..(Len(seq) - 1) : seq[j + 1] # 0} |-> seq[i + 1]]]

SparseImage(len, bytes) == [len |-> len, bytes |-> bytes]

byte_at(image, i) == IF i \in DOMAIN image.bytes THEN image.bytes[i] ELSE 0

\* Whether the slice `self.0[0x8000..(0x8000 + program.len())]` is inside the array.
load_program_fits(program) == ProgramOrigin + program.len <= MemSize

\* A load_program that zeroes the program area beyond the end of the image.
load_program_clearing_rest(mem, program) ==
    LET kept == {a \in DOMAIN mem : a < ProgramOrigin}
        copied == {ProgramOrigin + i : i \in DOMAIN program.bytes}
    IN  [a \in kept \cup copied |->
            IF a \in copied THEN program.bytes[a - ProgramOrigin] ELSE mem[a]]

\* Memory::load_program, when the slice is inside the array: copy_from_slice.
load_program(mem, program) ==
    LET kept == {a \in DOMAIN mem : a < ProgramOrigin \/ a >= ProgramOrigin + program.len}
        copied == {ProgramOrigin + i : i \in DOMAIN program.bytes}
    IN  [a \in kept \cup copied |->
            IF a \in copied THEN program.bytes[a - ProgramOrigin] ELSE mem[a]]

(***************************************************************************)
(* The CPU value and its panics                                            *)
(***************************************************************************)
Panicked(cpu, why) == [cpu EXCEPT !.panic = why]

\* CPU::new
new ==
    [register_a |-> 0, register_s |-> 0, register_x |-> 0, register_y |-> 0,
     status |-> 0, program_counter |-> 0, memory |-> NewMemory, panic |-> "none"]

\* CPU::load: load_program, then write_u16(RESET_VECTOR, 0x8000)
load(cpu, program) ==
    IF ~load_program_fits(program) THEN Panicked(cpu, SlicePanic)
    ELSE IF ~InBounds16(RESET_VECTOR) THEN Panicked(cpu, IndexPanic)
    ELSE [cpu EXCEPT !.memory =
              write_u16(load_program(cpu.memory, program), RESET_VECTOR, ProgramOrigin)]

\* A reset that leaves the status register as it was.
reset_keeping_status(cpu) ==
    IF ~InBounds16(RESET_VECTOR) THEN Panicked(cpu, IndexPanic)
    ELSE [cpu EXCEPT !.register_a = 0,
                     !.register_s = 255,
                     !.register_x = 0,
                     !.register_y = 0,
                     !.program_counter = read_u16(cpu.memory, RESET_VECTOR)]

\* A reset that writes the program origin to the reset vector before reading it.
reset_rewriting_vector(cpu) ==
    IF ~InBounds16(RESET_VECTOR) THEN Panicked(cpu, IndexPanic)
    ELSE [cpu EXCEPT !.register_a = 0,
                     !.register_s = 255,
                     !.register_x = 0,
                     !.register_y = 0,
                     !.status = 0,
                     !.program_counter = ProgramOrigin,
                     !.memory = write_u16(@, RESET_VECTOR, ProgramOrigin)]

\* CPU::reset
reset(cpu) ==
    IF ~InBounds16(RESET_VECTOR) THEN Panicked(cpu, IndexPanic)
    ELSE [cpu EXCEPT !.register_a = 0,
                     !.register_s = 255,
                     !.register_x = 0,
                     !.register_y = 0,
                     !.status = 0,
                     !.program_counter = read_u16(cpu.memory, RESET_VECTOR)]

(***************************************************************************)
(* The addressing resolver                                                 *)
(***************************************************************************)
Resolved(addr) == [panic |-> "none", addr |-> addr]
Failed(why) == [panic |-> why, addr |-> 0]

\* The Relative arm of the resolver: the address of the displacement byte.
relative_operand_address(cpu) == Resolved(cpu.program_counter)

\* AddressingMode::get_operand_address.  Every read of the memory is bounds-checked.
get_operand_address(cpu, mode) ==
    LET pc == cpu.program_counter
        mem == cpu.memory
    IN  CASE mode = "Immediate" -> Resolved(pc)
          [] mode = "ZeroPage" ->
                IF ~InBounds(pc) THEN Failed(IndexPanic) ELSE Resolved(read(mem, pc))
          [] mode = "Absolute" ->
                IF ~InBounds16(pc) THEN Failed(IndexPanic) ELSE Resolved(read_u16(mem, pc))
          [] mode = "ZeroPage_X" ->
                IF ~InBounds(pc) THEN Failed(IndexPanic)
                ELSE Resolved(wrapping_add8(read(mem, pc), cpu.register_x))
          [] mode = "ZeroPage_Y" ->
                IF ~InBounds(pc) THEN Failed(IndexPanic)
                ELSE Resolved(wrapping_add8(read(mem, pc), cpu.register_y))
          [] mode = "Absolute_X" ->
                IF ~InBounds16(pc) THEN Failed(IndexPanic)
                ELSE Resolved(wrapping_add16(read_u16(mem, pc), cpu.register_x))
          [] mode = "Absolute_Y" ->
                IF ~InBounds16(pc) THEN Failed(IndexPanic)
                ELSE Resolved(wrapping_add16(read_u16(mem, pc), cpu.register_y))
          [] mode = "Indirect_X" ->
                IF ~InBounds(pc) THEN Failed(IndexPanic)
                ELSE LET base == read(mem, pc)
                         ptr == wrapping_add8(base, cpu.register_x)
                         lo == read(mem, ptr)
                         hi == read(mem, wrapping_add8(ptr, 1))
                     IN  Resolved(hi * 256 + lo)
          [] mode = "Indirect_Y" ->
                IF ~InBounds(pc) THEN Failed(IndexPanic)
                ELSE LET base == read(mem, pc)
                         lo == read(mem, base)
                         hi == read(mem, wrapping_add8(base, 1))
                         deref_base == hi * 256 + lo
                     IN  Resolved(wrapping_add16(deref_base, cpu.register_y))
          [] mode = "Relative" -> relative_operand_address(cpu)
          [] OTHER -> Failed(ModePanic)

\* The opening of every handler that has an operand: the resolver call, then the
\* handler's first index of the memory at the resolved address (a read or a write).
operand(cpu, mode) ==
    LET r == get_operand_address(cpu, mode)
    IN  IF r.panic = "none" /\ ~InBounds(r.addr) THEN Failed(IndexPanic) ELSE r

(***************************************************************************)
(* Handlers: cpu/opscodes/arithmetic_logic.rs                              *)
(***************************************************************************)
\* update_zero_and_negative_flags
update_zero_and_negative_flags(cpu, value) ==
    [cpu EXCEPT !.status = set_negative_flag(set_zero_flag(@, value = 0), bit_7_is_set(value))]

\* update_carry_zero_and_negative_flags
update_carry_zero_and_negative_flags(cpu, comparator, register) ==
    LET result == wrapping_sub8(register, comparator)
    IN  [cpu EXCEPT !.status =
            set_negative_flag(
                set_zero_flag(set_carry_flag(@, register >= comparator), register = comparator),
                bit_7_is_set(result))]

\* An ADC whose overflow flag is its carry out.
adc_overflow_from_carry(cpu, mode) ==
    LET r == operand(cpu, mode)
    IN  IF r.panic # "none" THEN Panicked(cpu, r.panic)
        ELSE LET carry_value == get_carry_flag(cpu.status)
                 param == read(cpu.memory, r.addr)
                 temp == (cpu.register_a + param + carry_value) % Word16
                 result == temp % 256
             IN  [cpu EXCEPT
                     !.status = set_negative_flag(
                                    set_overflow_flag(
                                        set_zero_flag(set_carry_flag(@, temp > 255), result = 0),
                                        temp > 255),
                                    And8(result, 128) # 0),
                     !.register_a = result]

\* An ADC that adds the accumulator and the operand without the carry flag.
adc_ignoring_carry_in(cpu, mode) ==
    LET r == operand(cpu, mode)
    IN  IF r.panic # "none" THEN Panicked(cpu, r.panic)
        ELSE LET param == read(cpu.memory, r.addr)
                 temp == (cpu.register_a + param) % Word16
                 result == temp % 256
                 overflow == And8(And8(Xor8(cpu.register_a, result), Xor8(param, result)), 128) # 0
             IN  [cpu EXCEPT
                     !.status = set_negative_flag(
                                    set_overflow_flag(
                                        set_zero_flag(set_carry_flag(@, temp > 255), result = 0),
                                        overflow),
                                    And8(result, 128) # 0),
                     !.register_a = result]

adc(cpu, mode) ==
    LET r == operand(cpu, mode)
    IN  IF r.panic # "none" THEN Panicked(cpu, r.panic)
        ELSE LET carry_value == get_carry_flag(cpu.status)
                 param == read(cpu.memory, r.addr)
                 temp == (cpu.register_a + param + carry_value) % Word16
                 result == temp % 256
                 overflow == And8(And8(Xor8(cpu.register_a, result), Xor8(param, result)), 128) # 0
             IN  [cpu EXCEPT
                     !.status = set_negative_flag(
                                    set_overflow_flag(
                                        set_zero_flag(set_carry_flag(@, temp > 255), result = 0),
                                        overflow),
                                    And8(result, 128) # 0),
                     !.register_a = result]

and(cpu, mode) ==
    LET r == operand(cpu, mode)
    IN  IF r.panic # "none" THEN Panicked(cpu, r.panic)
        ELSE LET param == read(cpu.memory, r.addr)
                 result == And8(cpu.register_a, param)
             IN  update_zero_and_negative_flags([cpu EXCEPT !.register_a = result], result)

\* An ASL that calls the resolver before it looks at its mode.
asl_resolving_first(cpu, mode) ==
    LET r == operand(cpu, mode)
    IN  IF r.panic # "none" THEN Panicked(cpu, r.panic)
        ELSE LET value == IF mode = "Accumulator" THEN cpu.register_a
                          ELSE read(cpu.memory, r.addr)
                 bit7 == bit_7_is_set(value)
                 new_value == (value * 2) % 256
                 written == IF mode = "Accumulator"
                            THEN [cpu EXCEPT !.register_a = new_value]
                            ELSE [cpu EXCEPT !.memory = write(@, r.addr, new_value)]
                 flagged == update_zero_and_negative_flags(written, new_value)
             IN  [flagged EXCEPT !.status = set_carry_flag(@, bit7)]

asl(cpu, mode) ==
    IF mode = "Accumulator"
    THEN LET value == cpu.register_a
             bit7 == bit_7_is_set(value)
             new_value == (value * 2) % 256
             written == [cpu EXCEPT !.register_a = new_value]
             flagged == update_zero_and_negative_flags(written, new_value)
         IN  [flagged EXCEPT !.status = set_carry_flag(@, bit7)]
    ELSE LET r == operand(cpu, mode)
         IN  IF r.panic # "none" THEN Panicked(cpu, r.panic)
             ELSE LET value == read(cpu.memory, r.addr)
                      bit7 == bit_7_is_set(value)
                      new_value == (value * 2) % 256
                      written == [cpu EXCEPT !.memory = write(@, r.addr, new_value)]
                      flagged == update_zero_and_negative_flags(written, new_value)
                  IN  [flagged EXCEPT !.status = set_carry_flag(@, bit7)]

\* A BIT that takes the overflow flag from bit 7 of the operand.
bit_overflow_from_bit_7(cpu, mode) ==
    LET r == operand(cpu, mode)
    IN  IF r.panic # "none" THEN Panicked(cpu, r.panic)
        ELSE LET param == read(cpu.memory, r.addr)
                 result == And8(cpu.register_a, param)
             IN  [cpu EXCEPT !.status =
                     set_negative_flag(
                         set_overflow_flag(set_zero_flag(@, result = 0), bit_7_is_set(param)),
                         bit_7_is_set(param))]

bit(cpu, mode) ==
    LET r == operand(cpu, mode)
    IN  IF r.panic # "none" THEN Panicked(cpu, r.panic)
        ELSE LET param == read(cpu.memory, r.addr)
                 result == And8(cpu.register_a, param)
             IN  [cpu EXCEPT !.status =
                     set_negative_flag(
                         set_overflow_flag(set_zero_flag(@, result = 0), bit_6_is_set(param)),
                         bit_7_is_set(param))]

\* A CMP whose carry is set only when A is greater than the operand.
cmp_carry_when_greater(cpu, mode) ==
    LET r == operand(cpu, mode)
    IN  IF r.panic # "none" THEN Panicked(cpu, r.panic)
        ELSE LET param == read(cpu.memory, r.addr)
                 result == wrapping_sub8(cpu.register_a, param)
             IN  [cpu EXCEPT !.status =
                     set_negative_flag(
                         set_zero_flag(set_carry_flag(@, cpu.register_a > param),
                                       cpu.register_a = param),
                         bit_7_is_set(result))]

\* A CMP that takes N from the accumulator instead of the difference.
cmp_negative_from_accumulator(cpu, mode) ==
    LET r == operand(cpu, mode)
    IN  IF r.panic # "none" THEN Panicked(cpu, r.panic)
        ELSE LET param == read(cpu.memory, r.addr)
             IN  [cpu EXCEPT !.status =
                     set_negative_flag(
                         set_zero_flag(set_carry_flag(@, cpu.register_a >= param),
                                       cpu.register_a = param),
                         bit_7_is_set(cpu.register_a))]

cmp(cpu, mode) ==
    LET r == operand(cpu, mode)
    IN  IF r.panic # "none" THEN Panicked(cpu, r.panic)
        ELSE LET param == read(cpu.memory, r.addr)
                 result == wrapping_sub8(cpu.register_a, param)
             IN  [cpu EXCEPT !.status =
                     set_negative_flag(
                         set_zero_flag(set_carry_flag(@, cpu.register_a >= param),
                                       cpu.register_a = param),
                         bit_7_is_set(result))]

dec(cpu, mode) ==
    LET r == operand(cpu, mode)
    IN  IF r.panic # "none" THEN Panicked(cpu, r.panic)
        ELSE LET param == read(cpu.memory, r.addr)
                 result == wrapping_sub8(param, 1)
             IN  [cpu EXCEPT
                     !.memory = write(@, r.addr, result),
                     !.status = set_negative_flag(set_zero_flag(@, result = 0),
                                                  bit_7_is_set(result))]

eor(cpu, mode) ==
    LET r == operand(cpu, mode)
    IN  IF r.panic # "none" THEN Panicked(cpu, r.panic)
        ELSE LET param == read(cpu.memory, r.addr)
                 result == Xor8(cpu.register_a, param)
             IN  [cpu EXCEPT
                     !.register_a = result,
                     !.status = set_negative_flag(set_zero_flag(@, result = 0),
                                                  bit_7_is_set(result))]

\* An LSR that shifts the carry flag into bit 7, as ROR does.
lsr_with_carry_in(cpu, mode) ==
    IF mode = "Accumulator"
    THEN LET value == cpu.register_a
             bit0 == bit_0_is_set(value)
             new_value == value \div 2 + 128 * get_carry_flag(cpu.status)
             written == [cpu EXCEPT !.register_a = new_value]
             flagged == update_zero_and_negative_flags(written, new_value)
         IN  [flagged EXCEPT !.status = set_carry_flag(@, bit0)]
    ELSE LET r == operand(cpu, mode)
         IN  IF r.panic # "none" THEN Panicked(cpu, r.panic)
             ELSE LET value == read(cpu.memory, r.addr)
                      bit0 == bit_0_is_set(value)
                      new_value == value \div 2 + 128 * get_carry_flag(cpu.status)
                      written == [cpu EXCEPT !.memory = write(@, r.addr, new_value)]
                      flagged == update_zero_and_negative_flags(written, new_value)
                  IN  [flagged EXCEPT !.status = set_carry_flag(@, bit0)]

lsr(cpu, mode) ==
    IF mode = "Accumulator"
    THEN LET value == cpu.register_a
             bit0 == bit_0_is_set(value)
             new_value == value \div 2
             written == [cpu EXCEPT !.register_a = new_value]
             flagged == update_zero_and_negative_flags(written, new_value)
         IN  [flagged EXCEPT !.status = set_carry_flag(@, bit0)]
    ELSE LET r == operand(cpu, mode)
         IN  IF r.panic # "none" THEN Panicked(cpu, r.panic)
             ELSE LET value == read(cpu.memory, r.addr)
                      bit0 == bit_0_is_set(value)
                      new_value == value \div 2
                      written == [cpu EXCEPT !.memory = write(@, r.addr, new_value)]
                      flagged == update_zero_and_negative_flags(written, new_value)
                  IN  [flagged EXCEPT !.status = set_carry_flag(@, bit0)]

ora(cpu, mode) ==
    LET r == operand(cpu, mode)
    IN  IF r.panic # "none" THEN Panicked(cpu, r.panic)
        ELSE LET param == read(cpu.memory, r.addr)
                 result == Or8(cpu.register_a, param)
             IN  [cpu EXCEPT
                     !.register_a = result,
                     !.status = set_negative_flag(set_zero_flag(@, result = 0),
                                                  bit_7_is_set(result))]

rol(cpu, mode) ==
    LET carry_flag == get_carry_flag(cpu.status)
    IN  IF mode = "Accumulator"
        THEN LET value == cpu.register_a
                 bit7 == bit_7_is_set(value)
                 new_value == Or8((value * 2) % 256, carry_flag)
                 written == [cpu EXCEPT !.register_a = new_value]
                 flagged == update_zero_and_negative_flags(written, new_value)
             IN  [flagged EXCEPT !.status = set_carry_flag(@, bit7)]
        ELSE LET r == operand(cpu, mode)
             IN  IF r.panic # "none" THEN Panicked(cpu, r.panic)
                 ELSE LET value == read(cpu.memory, r.addr)
                          bit7 == bit_7_is_set(value)
                          new_value == Or8((value * 2) % 256, carry_flag)
                          written == [cpu EXCEPT !.memory = write(@, r.addr, new_value)]
                          flagged == update_zero_and_negative_flags(written, new_value)
                      IN  [flagged EXCEPT !.status = set_carry_flag(@, bit7)]

\* A ROR that shifts a 0 into bit 7 instead of the carry flag.
ror_without_carry_in(cpu, mode) ==
    IF mode = "Accumulator"
    THEN LET value == cpu.register_a
             written == [cpu EXCEPT !.register_a = value \div 2]
             flagged == update_zero_and_negative_flags(written, value \div 2)
         IN  [flagged EXCEPT !.status = set_carry_flag(@, bit_0_is_set(value))]
    ELSE LET r == operand(cpu, mode)
         IN  IF r.panic # "none" THEN Panicked(cpu, r.panic)
             ELSE LET value == read(cpu.memory, r.addr)
                      written == [cpu EXCEPT !.memory = write(@, r.addr, value \div 2)]
                      flagged == update_zero_and_negative_flags(written, value \div 2)
                  IN  [flagged EXCEPT !.status = set_carry_flag(@, bit_0_is_set(value))]

ror(cpu, mode) ==
    LET carry_flag == get_carry_flag(cpu.status)
    IN  IF mode = "Accumulator"
        THEN LET value == cpu.register_a
                 bit0 == bit_0_is_set(value)
                 new_value == Or8(value \div 2, (carry_flag * 128) % 256)
                 written == [cpu EXCEPT !.register_a = new_value]
                 flagged == update_zero_and_negative_flags(written, new_value)
             IN  [flagged EXCEPT !.status = set_carry_flag(@, bit0)]
        ELSE LET r == operand(cpu, mode)
             IN  IF r.panic # "none" THEN Panicked(cpu, r.panic)
                 ELSE LET value == read(cpu.memory, r.addr)
                          bit0 == bit_0_is_set(value)
                          new_value == Or8(value \div 2, (carry_flag * 128) % 256)
                          written == [cpu EXCEPT !.memory = write(@, r.addr, new_value)]
                          flagged == update_zero_and_negative_flags(written, new_value)
                      IN  [flagged EXCEPT !.status = set_carry_flag(@, bit0)]

\* An SBC that subtracts the operand without the carry flag.
sbc_ignoring_carry_in(cpu, mode) ==
    LET r == operand(cpu, mode)
    IN  IF r.panic # "none" THEN Panicked(cpu, r.panic)
        ELSE LET param == read(cpu.memory, r.addr)
                 temp == (cpu.register_a - param + Word16) % Word16
                 result == temp % 256
                 overflow == And8(Xor8(cpu.register_a, param), 128) = 0
                             /\ And8(Xor8(cpu.register_a, result), 128) # 0
             IN  [cpu EXCEPT
                     !.status = set_negative_flag(
                                    set_overflow_flag(
                                        set_zero_flag(set_carry_flag(@, temp <= 255), result = 0),
                                        overflow),
                                    And8(result, 128) # 0),
                     !.register_a = result]

sbc(cpu, mode) ==
    LET r == operand(cpu, mode)
    IN  IF r.panic # "none" THEN Panicked(cpu, r.panic)
        ELSE LET carry_value == get_carry_flag(cpu.status)
                 param == read(cpu.memory, r.addr)
                 temp == (cpu.register_a - param - carry_value + Word16) % Word16
                 result == temp % 256
                 overflow == And8(Xor8(cpu.register_a, param), 128) = 0
                             /\ And8(Xor8(cpu.register_a, result), 128) # 0
             IN  [cpu EXCEPT
                     !.status = set_negative_flag(
                                    set_overflow_flag(
                                        set_zero_flag(set_carry_flag(@, temp <= 255), result = 0),
                                        overflow),
                                    And8(result, 128) # 0),
                     !.register_a = result]

(***************************************************************************)
(* Handlers: cpu/opscodes/control_flow.rs                                  *)
(***************************************************************************)
\* The body of a taken branch: read the displacement at the resolved address
\* as an i8 and add it to the program counter, wrapping.
branch(cpu, mode) ==
    LET r == operand(cpu, mode)
    IN  IF r.panic # "none" THEN Panicked(cpu, r.panic)
        ELSE LET relative_displacement == as_i8(read(cpu.memory, r.addr))
             IN  [cpu EXCEPT !.program_counter =
                     (cpu.program_counter + relative_displacement + Word16) % Word16]

bcc(cpu, mode) == IF get_carry_flag(cpu.status) = 0 THEN branch(cpu, mode) ELSE cpu

bcs(cpu, mode) == IF get_carry_flag(cpu.status) # 0 THEN branch(cpu, mode) ELSE cpu

\* BEQ: taken when the zero flag is set.
beq(cpu, mode) == IF get_zero_flag(cpu.status) # 0 THEN branch(cpu, mode) ELSE cpu

(***************************************************************************)
(* Handlers: cpu/opscodes/registers.rs                                     *)
(***************************************************************************)
\* A CPX that leaves the difference in X.
cpx_keeping_difference(cpu, mode) ==
    LET r == operand(cpu, mode)
    IN  IF r.panic # "none" THEN Panicked(cpu, r.panic)
        ELSE LET param == read(cpu.memory, r.addr)
                 flagged == update_carry_zero_and_negative_flags(cpu, param, cpu.register_x)
             IN  [flagged EXCEPT !.register_x = wrapping_sub8(cpu.register_x, param)]

cpx(cpu, mode) ==
    LET r == operand(cpu, mode)
    IN  IF r.panic # "none" THEN Panicked(cpu, r.panic)
        ELSE update_carry_zero_and_negative_flags(cpu, read(cpu.memory, r.addr), cpu.register_x)

cpy(cpu, mode) ==
    LET r == operand(cpu, mode)
    IN  IF r.panic # "none" THEN Panicked(cpu, r.panic)
        ELSE update_carry_zero_and_negative_flags(cpu, read(cpu.memory, r.addr), cpu.register_y)

\* A DEX that takes the flags from X as it was before the decrement.
dex_flags_before_decrement(cpu) ==
    LET result == wrapping_sub8(cpu.register_x, 1)
    IN  update_zero_and_negative_flags([cpu EXCEPT !.register_x = result], cpu.register_x)

dex(cpu) ==
    LET result == wrapping_sub8(cpu.register_x, 1)
    IN  update_zero_and_negative_flags([cpu EXCEPT !.register_x = result], result)

dey(cpu) ==
    LET result == wrapping_sub8(cpu.register_y, 1)
    IN  update_zero_and_negative_flags([cpu EXCEPT !.register_y = result], result)

inc(cpu, mode) ==
    LET r == operand(cpu, mode)
    IN  IF r.panic # "none" THEN Panicked(cpu, r.panic)
        ELSE LET param == read(cpu.memory, r.addr)
                 result == wrapping_add8(param, 1)
             IN  update_zero_and_negative_flags(
                     [cpu EXCEPT !.memory = write(@, r.addr, result)], result)

\* An INX that takes the flags from the accumulator.
inx_flags_from_a(cpu) ==
    LET result == wrapping_add8(cpu.register_x, 1)
    IN  update_zero_and_negative_flags([cpu EXCEPT !.register_x = result], cpu.register_a)

inx(cpu) ==
    LET result == wrapping_add8(cpu.register_x, 1)
    IN  update_zero_and_negative_flags([cpu EXCEPT !.register_x = result], result)

iny(cpu) ==
    LET result == wrapping_add8(cpu.register_y, 1)
    IN  update_zero_and_negative_flags([cpu EXCEPT !.register_y = result], result)

lda(cpu, mode) ==
    LET r == operand(cpu, mode)
    IN  IF r.panic # "none" THEN Panicked(cpu, r.panic)
        ELSE LET param == read(cpu.memory, r.addr)
             IN  update_zero_and_negative_flags([cpu EXCEPT !.register_a = param], param)

ldx(cpu, mode) ==
    LET r == operand(cpu, mode)
    IN  IF r.panic # "none" THEN Panicked(cpu, r.panic)
        ELSE LET param == read(cpu.memory, r.addr)
             IN  update_zero_and_negative_flags([cpu EXCEPT !.register_x = param], param)

ldy(cpu, mode) ==
    LET r == operand(cpu, mode)
    IN  IF r.panic # "none" THEN Panicked(cpu, r.panic)
        ELSE LET param == read(cpu.memory, r.addr)
             IN  update_zero_and_negative_flags([cpu EXCEPT !.register_y = param], param)

\* A PHA that moves the stack pointer before it writes.
pha_decrementing_first(cpu) ==
    LET stack_pointer == wrapping_sub8(cpu.register_s, 1)
    IN  [cpu EXCEPT !.memory = push_to_stack(@, stack_pointer, cpu.register_a),
                    !.register_s = stack_pointer]

pha(cpu) ==
    LET stack_pointer == cpu.register_s
    IN  [cpu EXCEPT !.memory = push_to_stack(@, stack_pointer, cpu.register_a),
                    !.register_s = wrapping_sub8(stack_pointer, 1)]

\* An STA that stores the X register.
sta_storing_x(cpu, mode) ==
    LET r == operand(cpu, mode)
    IN  IF r.panic # "none" THEN Panicked(cpu, r.panic)
        ELSE [cpu EXCEPT !.memory = write(@, r.addr, cpu.register_x)]

sta(cpu, mode) ==
    LET r == operand(cpu, mode)
    IN  IF r.panic # "none" THEN Panicked(cpu, r.panic)
        ELSE [cpu EXCEPT !.memory = write(@, r.addr, cpu.register_a)]

\* An STX that updates Z and N from the stored value, as the loads do.
stx_updating_flags(cpu, mode) ==
    LET r == operand(cpu, mode)
    IN  IF r.panic # "none" THEN Panicked(cpu, r.panic)
        ELSE update_zero_and_negative_flags(
                 [cpu EXCEPT !.memory = write(@, r.addr, cpu.register_x)], cpu.register_x)

stx(cpu, mode) ==
    LET r == operand(cpu, mode)
    IN  IF r.panic # "none" THEN Panicked(cpu, r.panic)
        ELSE [cpu EXCEPT !.memory = write(@, r.addr, cpu.register_x)]

sty(cpu, mode) ==
    LET r == operand(cpu, mode)
    IN  IF r.panic # "none" THEN Panicked(cpu, r.panic)
        ELSE [cpu EXCEPT !.memory = write(@, r.addr, cpu.register_y)]

tax(cpu) ==
    update_zero_and_negative_flags([cpu EXCEPT !.register_x = cpu.register_a], cpu.register_a)

tay(cpu) ==
    update_zero_and_negative_flags([cpu EXCEPT !.register_y = cpu.register_a], cpu.register_a)

tsx(cpu) ==
    update_zero_and_negative_flags([cpu EXCEPT !.register_x = cpu.register_s], cpu.register_s)

txa(cpu) ==
    update_zero_and_negative_flags([cpu EXCEPT !.register_a = cpu.register_x], cpu.register_x)

txs(cpu) ==
    update_zero_and_negative_flags([cpu EXCEPT !.register_s = cpu.register_x], cpu.register_x)

tya(cpu) ==
    update_zero_and_negative_flags([cpu EXCEPT !.register_a = cpu.register_y], cpu.register_y)

(***************************************************************************)
(* Handlers: cpu/opscodes/status_register.rs                               *)
(***************************************************************************)
clc(cpu) == [cpu EXCEPT !.status = set_carry_flag(@, FALSE)]

sec(cpu) == [cpu EXCEPT !.status = set_carry_flag(@, TRUE)]

(***************************************************************************)
(* The opcode table: OpCode { code, mnemonic, mode, len } by opcode byte.  *)
(* It holds every encoding the dispatch of CPU::run names, and BRK.        *)
(***************************************************************************)
\* The instruction length of an addressing mode: the opcode byte and its operand bytes.
ModeLen(mode) ==
    CASE mode \in {"NoneAddressing", "Accumulator"} -> 1
      [] mode \in {"Absolute", "Absolute_X", "Absolute_Y"} -> 3
      [] OTHER -> 2

\* The eight encodings of ADC, AND, CMP, EOR, LDA, ORA, SBC, by their opcode bytes in
\* the order Immediate, ZeroPage, ZeroPage_X, Absolute, Absolute_X, Absolute_Y,
\* Indirect_X, Indirect_Y.
Modes8 == <<"Immediate", "ZeroPage", "ZeroPage_X", "Absolute", "Absolute_X", "Absolute_Y",
            "Indirect_X", "Indirect_Y">>

Group(mnemonic, codes, modes) ==
    {[code |-> codes[i], mnemonic |-> mnemonic, mode |-> modes[i], len |-> ModeLen(modes[i])] :
        i \in 1..Len(codes)}

Shifts == <<"Accumulator", "ZeroPage", "ZeroPage_X", "Absolute", "Absolute_X">>
IncDec == <<"ZeroPage", "ZeroPage_X", "Absolute", "Absolute_X">>
Implied == <<"NoneAddressing">>

OpCodeTable ==
    Group("BRK", <<\h00>>, Implied)
    \cup Group("ADC", <<\h69, \h65, \h75, \h6D, \h7D, \h79, \h61, \h71>>, Modes8)
    \cup Group("AND", <<\h29, \h25, \h35, \h2D, \h3D, \h39, \h21, \h31>>, Modes8)
    \cup Group("ASL", <<\h0A, \h06, \h16, \h0E, \h1E>>, Shifts)
    \cup Group("BCC", <<\h90>>, <<"Relative">>)
    \cup Group("BCS", <<\hB0>>, <<"Relative">>)
    \cup Group("BEQ", <<\hF0>>, <<"Relative">>)
    \cup Group("BIT", <<\h24, \h2C>>, <<"ZeroPage", "Absolute">>)
    \cup Group("CLC", <<\h18>>, Implied)
    \cup Group("CMP", <<\hC9, \hC5, \hD5, \hCD, \hDD, \hD9, \hC1, \hD1>>, Modes8)
    \cup Group("CPX", <<\hE0, \hE4, \hEC>>, <<"Immediate", "ZeroPage", "Absolute">>)
    \cup Group("CPY", <<\hC0, \hC4, \hCC>>, <<"Immediate", "ZeroPage", "Absolute">>)
    \cup Group("DEC", <<\hC6, \hD6, \hCE, \hDE>>, IncDec)
    \cup Group("DEX", <<\hCA>>, Implied)
    \cup Group("DEY", <<\h88>>, Implied)
    \cup Group("EOR", <<\h49, \h45, \h55, \h4D, \h5D, \h59, \h41, \h51>>, Modes8)
    \cup Group("INC", <<\hE6, \hF6, \hEE, \hFE>>, IncDec)
    \cup Group("INX", <<\hE8>>, Implied)
    \cup Group("INY", <<\hC8>>, Implied)
    \cup Group("LDA", <<\hA9, \hA5, \hB5, \hAD, \hBD, \hB9, \hA1, \hB1>>, Modes8)
    \cup Group("LDX", <<\hA2, \hA6, \hB6, \hAE, \hBE>>,
               <<"Immediate", "ZeroPage", "ZeroPage_Y", "Absolute", "Absolute_Y">>)
    \cup Group("LDY", <<\hA0, \hA4, \hB4, \hAC, \hBC>>,
               <<"Immediate", "ZeroPage", "ZeroPage_X", "Absolute", "Absolute_X">>)
    \cup Group("LSR", <<\h4A, \h46, \h56, \h4E, \h5E>>, Shifts)
    \cup Group("ORA", <<\h09, \h05, \h15, \h0D, \h1D, \h19, \h01, \h11>>, Modes8)
    \cup Group("PHA", <<\h48>>, Implied)
    \cup Group("ROL", <<\h2A, \h26, \h36, \h2E, \h3E>>, Shifts)
    \cup Group("ROR", <<\h6A, \h66, \h76, \h6E, \h7E>>, Shifts)
    \cup Group("SBC", <<\hE9, \hE5, \hF5, \hED, \hFD, \hF9, \hE1, \hF1>>, Modes8)
    \cup Group("SEC", <<\h38>>, Implied)
    \cup Group("STA", <<\h85, \h95, \h8D, \h9D, \h99, \h81, \h91>>,
               <<"ZeroPage", "ZeroPage_X", "Absolute", "Absolute_X", "Absolute_Y",
                 "Indirect_X", "Indirect_Y">>)
    \cup Group("STX", <<\h86, \h96, \h8E>>, <<"ZeroPage", "ZeroPage_Y", "Absolute">>)
    \cup Group("STY", <<\h84, \h94, \h8C>>, <<"ZeroPage", "ZeroPage_X", "Absolute">>)
    \cup Group("TAX", <<\hAA>>, Implied)
    \cup Group("TAY", <<\hA8>>, Implied)
    \cup Group("TSX", <<\hBA>>, Implied)
    \cup Group("TXA", <<\h8A>>, Implied)
    \cup Group("TXS", <<\h9A>>, Implied)
    \cup Group("TYA", <<\h98>>, Implied)

\* OPCODES_MAP: HashMap<u8, &'static OpCode>
OPCODES_MAP == [c \in {e.code : e \in OpCodeTable} |-> CHOOSE e \in OpCodeTable : e.code = c]

(***************************************************************************)
(* CPU::run: one iteration of its loop                                     *)
(***************************************************************************)
\* `self.program_counter += n` on a u16: a panic where overflow is checked (the
\* debug profile), a wrap where it is not (the release profile).
add_to_program_counter(cpu, n, checks) ==
    IF cpu.program_counter + n < Word16
    THEN [cpu EXCEPT !.program_counter = @ + n]
    ELSE IF checks THEN Panicked(cpu, AddOverflowPanic)
    ELSE [cpu EXCEPT !.program_counter = (@ + n) % Word16]

\* The `match code` of CPU::run, without its 0x00 arm (the return).
dispatch(cpu, code, mode) ==
    CASE code \in {\h69, \h65, \h75, \h6D, \h7D, \h79, \h61, \h71} -> adc(cpu, mode)
      [] code \in {\h29, \h25, \h35, \h2D, \h3D, \h39, \h21, \h31} -> and(cpu, mode)
      [] code \in {\h0A, \h06, \h16, \h0E, \h1E} -> asl(cpu, mode)
      [] code = \h90 -> bcc(cpu, mode)
      [] code = \hB0 -> bcs(cpu, mode)
      [] code = \hF0 -> beq(cpu, mode)
      [] code \in {\h24, \h2C} -> bit(cpu, mode)
      [] code = \h18 -> clc(cpu)
      [] code \in {\hC9, \hC5, \hD5, \hCD, \hDD, \hD9, \hC1, \hD1} -> cmp(cpu, mode)
      [] code \in {\hE0, \hE4, \hEC} -> cpx(cpu, mode)
      [] code \in {\hC0, \hC4, \hCC} -> cpy(cpu, mode)
      [] code \in {\hC6, \hD6, \hCE, \hDE} -> dec(cpu, mode)
      [] code = \hCA -> dex(cpu)
      [] code = \h88 -> dey(cpu)
      [] code \in {\h49, \h45, \h55, \h4D, \h5D, \h59, \h41, \h51} -> eor(cpu, mode)
      [] code \in {\hE6, \hF6, \hEE, \hFE} -> inc(cpu, mode)
      [] code = \hE8 -> inx(cpu)
      [] code = \hC8 -> iny(cpu)
      [] code \in {\hA9, \hA5, \hB5, \hAD, \hBD, \hB9, \hA1, \hB1} -> lda(cpu, mode)
      [] code \in {\hA2, \hA6, \hB6, \hAE, \hBE} -> ldx(cpu, mode)
      [] code \in {\hA0, \hA4, \hB4, \hAC, \hBC} -> ldy(cpu, mode)
      [] code \in {\h4A, \h46, \h56, \h4E, \h5E} -> lsr(cpu, mode)
      [] code \in {\h09, \h05, \h15, \h0D, \h1D, \h19, \h01, \h11} -> ora(cpu, mode)
      [] code = \h48 -> pha(cpu)
      [] code \in {\h2A, \h26, \h36, \h2E, \h3E} -> rol(cpu, mode)
      [] code \in {\h6A, \h66, \h76, \h6E, \h7E} -> ror(cpu, mode)
      [] code \in {\hE9, \hE5, \hF5, \hED, \hFD, \hF9, \hE1, \hF1} -> sbc(cpu, mode)
      [] code = \h38 -> sec(cpu)
      [] code \in {\h85, \h95, \h8D, \h9D, \h99, \h81, \h91} -> sta(cpu, mode)
      [] code \in {\h86, \h96, \h8E} -> stx(cpu, mode)
      [] code \in {\h84, \h94, \h8C} -> sty(cpu, mode)
      [] code = \hAA -> tax(cpu)
      [] code = \hA8 -> tay(cpu)
      [] code = \hBA -> tsx(cpu)
      [] code = \h8A -> txa(cpu)
      [] code = \h9A -> txs(cpu)
      [] code = \h98 -> tya(cpu)
      [] OTHER -> Panicked(cpu, TodoPanic)

\* An advance that skips the operand bytes only when the handler left the program
\* counter where it was.
advance_unless_moved(before, after, opcode, checks) ==
    IF before.program_counter = after.program_counter
    THEN add_to_program_counter(after, opcode.len - 1, checks)
    ELSE after

\* The post-dispatch advance of CPU::run (lines 193-197).
advance(before, after, opcode, checks) ==
    IF before.program_counter = after.program_counter \/ opcode.mode = "Relative"
    THEN add_to_program_counter(after, opcode.len - 1, checks)
    ELSE after

\* The end of an iteration whose handler left `handled`: a panic in the handler
\* ends the process, otherwise the advance follows.
after_dispatch(fetched, handled, opcode, checks) ==
    IF handled.panic # "none"
    THEN [cpu |-> handled, returned |-> FALSE]
    ELSE [cpu |-> advance(fetched, handled, opcode, checks), returned |-> FALSE]

\* The lookup placed after the increment of the program counter.
unknown_opcode_after_increment(cpu) ==
    Panicked([cpu EXCEPT !.program_counter = (@ + 1) % Word16], UnknownOpcodePanic)

\* The `.expect(..)` on the lookup of an opcode byte the table does not hold.
unknown_opcode(cpu) == Panicked(cpu, UnknownOpcodePanic)

\* A BRK that sets the break flag (bit 4 of P) before it returns.
brk_setting_break_flag(fetched) == [fetched EXCEPT !.status = set_bit_at(@, 4)]

\* The 0x00 arm of the match: run returns, the program counter past the opcode.
brk(fetched) == fetched

\* One iteration of the loop of CPU::run: the CPU after it, and whether run returned.
run_iteration(cpu, checks) ==
    IF ~InBounds(cpu.program_counter)
    THEN [cpu |-> Panicked(cpu, IndexPanic), returned |-> FALSE]
    ELSE LET code == read(cpu.memory, cpu.program_counter)
         IN  IF code \notin DOMAIN OPCODES_MAP
             THEN [cpu |-> unknown_opcode(cpu), returned |-> FALSE]
             ELSE LET opcode == OPCODES_MAP[code]
                      fetched == add_to_program_counter(cpu, 1, checks)
                  IN  IF fetched.panic # "none" THEN [cpu |-> fetched, returned |-> FALSE]
                      ELSE IF code = 0 THEN [cpu |-> brk(fetched), returned |-> TRUE]
                      ELSE after_dispatch(fetched, dispatch(fetched, code, opcode.mode),
                                          opcode, checks)

(***************************************************************************)
(* The state machine: a CPU made by CPU::new, then calls of load, reset    *)
(* and run by its owner; run is a loop whose iterations are steps.         *)
(***************************************************************************)
\* The largest number of calls (load, reset, run) made on one CPU.
MaxCalls == 6

\* The programs handed to load.  Short programs are written out; the long images
\* are zero but for the bytes named.
Images ==
    << ImageOf(<<\hA9, \h05, \h00>>),                               \* LDA #5; BRK
       ImageOf(<<\hA9, \hC0, \hAA, \hE8, \h48, \h00>>),             \* LDA; TAX; INX; PHA; BRK
       ImageOf(<<\hA9, \hFF, \h38, \h69, \h01, \h00>>),             \* LDA; SEC; ADC; BRK
       ImageOf(<<\h18, \h90, \h02, \hA9, \hFF, \hA9, \hAA, \h00>>), \* CLC; BCC +2; LDA; LDA; BRK
       ImageOf(<<\hA2, \h01, \h86, \h10, \hCE, \h10, \h00, \h00>>), \* LDX; STX $10; DEC $0010
       ImageOf(<<\hA9, \h90, \h8D, \hFC, \hFF, \h00>>),             \* LDA; STA $FFFC; BRK
       ImageOf(<<\hAD, \hFF, \hFF, \h00>>),                         \* LDA $FFFF; BRK
       \* LDA #$B0; STA $FFFE; LDA #$FE; STA $FFFC; LDA #$FF; STA $FFFD; BRK:
       \* a BCS at 0xFFFE and the reset vector pointing at it
       ImageOf(<<\hA9, \hB0, \h8D, \hFE, \hFF, \hA9, \hFE, \h8D, \hFC, \hFF,
                 \hA9, \hFF, \h8D, \hFD, \hFF, \h00>>),
       ImageOf(<<\hA9, \h07, \h02>>),                               \* LDA; an unknown opcode
       ImageOf(<< >>),                                              \* the empty program
       SparseImage(\h7FFC, (\h7FFB :> \hE8)),     \* ends right below the reset vector
       SparseImage(\h7FFD, (0 :> \hE8) @@ (\h7FFC :> \h01)), \* covers 0xFFFC
       SparseImage(\h7FFF, (\h7FFE :> \hE8)),     \* ends at 0xFFFE, the last cell of the array
       SparseImage(\h8000, (\h7FFF :> \hE8)),     \* ends at 0xFFFF
       SparseImage(\h8001, (0 :> \hE8)) >>        \* one byte more than 0x8000..=0xFFFF

\* The CPU value held by the state variables.
Cpu ==
    [register_a |-> register_a, register_s |-> register_s, register_x |-> register_x,
     register_y |-> register_y, status |-> status, program_counter |-> program_counter,
     memory |-> memory, panic |-> panic]

\* The state variables take the CPU value `cpu`; a panic ends the process.
Becomes(cpu) ==
    /\ register_a' = cpu.register_a
    /\ register_s' = cpu.register_s
    /\ register_x' = cpu.register_x
    /\ register_y' = cpu.register_y
    /\ status' = cpu.status
    /\ program_counter' = cpu.program_counter
    /\ memory' = cpu.memory
    /\ panic' = cpu.panic

NoCall == [op |-> "new", arg |-> 0, data |-> 0]
NoFetch == [code |-> -1, at |-> -1]

Init ==
    /\ register_a = new.register_a
    /\ register_s = new.register_s
    /\ register_x = new.register_x
    /\ register_y = new.register_y
    /\ status = new.status
    /\ program_counter = new.program_counter
    /\ memory = new.memory
    /\ panic = new.panic
    /\ control = "idle"
    /\ overflow_checks \in BOOLEAN
    /\ calls = 0
    /\ last_call = NoCall
    /\ last = NoFetch

CanCall == control = "idle" /\ calls < MaxCalls

\* The control state after a call or a step that left the CPU value `cpu`.
Outcome(cpu, then) == IF cpu.panic = "none" THEN then ELSE "panicked"

\* cpu.load(Images[k])
Load(k) ==
    /\ CanCall
    /\ LET after == load(Cpu, Images[k])
       IN  Becomes(after) /\ control' = Outcome(after, "idle")
    /\ calls' = calls + 1
    /\ last_call' = [op |-> "load", arg |-> k, data |-> 0]
    /\ UNCHANGED <<overflow_checks, last>>

\* cpu.reset()
Reset ==
    /\ CanCall
    /\ LET after == reset(Cpu)
       IN  Becomes(after) /\ control' = Outcome(after, "idle")
    /\ calls' = calls + 1
    /\ last_call' = [op |-> "reset", arg |-> 0, data |-> 0]
    /\ UNCHANGED <<overflow_checks, last>>

\* cpu.run() is called: its loop begins.
Run ==
    /\ CanCall
    /\ control' = "running"
    /\ calls' = calls + 1
    /\ last_call' = [op |-> "run", arg |-> 0, data |-> 0]
    /\ last' = NoFetch
    /\ UNCHANGED <<register_a, register_s, register_x, register_y, status,
                   program_counter, memory, panic, overflow_checks>>

\* What the next iteration of the loop of run fetches (when the fetch is inside the array).
Fetch == [code |-> read(memory, program_counter), at |-> program_counter]

\* The state after an iteration of the loop that left `it`: the loop goes on, or run
\* returns (BRK), or the process panics.
Iterated(it) ==
    /\ Becomes(it.cpu)
    /\ control' = Outcome(it.cpu, IF it.returned THEN "idle" ELSE "running")

\* One iteration of the loop of run.
RunStep ==
    /\ control = "running"
    /\ Iterated(run_iteration(Cpu, overflow_checks))
    /\ last' = IF InBounds(program_counter) THEN Fetch ELSE [code |-> -1, at |-> program_counter]
    /\ UNCHANGED <<overflow_checks, calls, last_call>>

Next ==
    \/ \E k \in 1..Len(Images) : Load(k)
    \/ Reset
    \/ Run
    \/ RunStep

Spec == Init /\ [][Next]_vars

(***************************************************************************)
(* The memory on its own: the owner of a CPU calls read, write, read_u16   *)
(* and write_u16 on cpu.memory (a pub field) with addresses of its choice. *)
(***************************************************************************)
\* The largest number of calls made on the memory.
MaxMemoryCalls == 3

\* The addresses, bytes and words the calls draw from: the ends of the address
\* space, of the pages and of the program area, and the reset vector.
CallAddresses == {\h0000, \h00FF, \h0100, \h8000, \hFFFC, \hFFFE, \hFFFF}
CallBytes == {\h00, \h01, \h80, \hFF}
CallWords == {\h0000, \h8000, \h12FF, \hFFFF}

CanCallMemory == control = "idle" /\ calls < MaxMemoryCalls

\* The state after a call on the memory that left `out`.
MemoryCalled(out, op, addr, data) ==
    /\ memory' = out.memory
    /\ panic' = out.panic
    /\ control' = IF out.panic = "none" THEN "idle" ELSE "panicked"
    /\ calls' = calls + 1
    /\ last_call' = [op |-> op, arg |-> addr, data |-> IF op \in {"read", "read_u16"}
                                                       THEN out.value ELSE data]
    /\ UNCHANGED <<register_a, register_s, register_x, register_y, status,
                   program_counter, overflow_checks, last>>

\* cpu.memory.read(addr)
MemoryRead(addr) ==
    CanCallMemory /\ MemoryCalled(read_call(memory, addr), "read", addr, 0)

\* cpu.memory.write(addr, data)
MemoryWrite(addr, data) ==
    CanCallMemory /\ MemoryCalled(write_call(memory, addr, data), "write", addr, data)

\* cpu.memory.read_u16(addr)
MemoryReadU16(addr) ==
    CanCallMemory /\ MemoryCalled(read_u16_call(memory, addr), "read_u16", addr, 0)

\* cpu.memory.write_u16(addr, data)
MemoryWriteU16(addr, data) ==
    CanCallMemory /\ MemoryCalled(write_u16_call(memory, addr, data), "write_u16", addr, data)

NextMemory ==
    \/ \E addr \in CallAddresses : MemoryRead(addr)
    \/ \E addr \in CallAddresses, data \in CallBytes : MemoryWrite(addr, data)
    \/ \E addr \in CallAddresses : MemoryReadU16(addr)
    \/ \E addr \in CallAddresses, data \in CallWords : MemoryWriteU16(addr, data)

SpecMemory == Init /\ [][NextMemory]_vars

(***************************************************************************)
(* The status register on its own: cpu.status is a pub field, and its      *)
(* owner calls the four flag setters on a register of any value.           *)
(* last_call keeps the argument in arg (1 for true) and the prior P in data.*)
(***************************************************************************)
MaxStatusCalls == 2

InitStatus ==
    /\ register_a = new.register_a
    /\ register_s = new.register_s
    /\ register_x = new.register_x
    /\ register_y = new.register_y
    /\ status \in Byte
    /\ program_counter = new.program_counter
    /\ memory = new.memory
    /\ panic = new.panic
    /\ control = "idle"
    /\ overflow_checks = TRUE
    /\ calls = 0
    /\ last_call = NoCall
    /\ last = NoFetch

\* The state after a setter called with `state` left the register at p.
StatusCalled(p, op, state) ==
    /\ control = "idle" /\ calls < MaxStatusCalls
    /\ status' = p
    /\ calls' = calls + 1
    /\ last_call' = [op |-> op, arg |-> IF state THEN 1 ELSE 0, data |-> status]
    /\ UNCHANGED <<register_a, register_s, register_x, register_y, program_counter,
                   memory, panic, control, overflow_checks, last>>

\* cpu.status.set_carry_flag(state) and the other three
SetCarryFlag(state) == StatusCalled(set_carry_flag(status, state), "set_carry_flag", state)
SetZeroFlag(state) == StatusCalled(set_zero_flag(status, state), "set_zero_flag", state)
SetOverflowFlag(state) ==
    StatusCalled(set_overflow_flag(status, state), "set_overflow_flag", state)
SetNegativeFlag(state) ==
    StatusCalled(set_negative_flag(status, state), "set_negative_flag", state)

NextStatus ==
    \/ \E state \in BOOLEAN : SetCarryFlag(state)
    \/ \E state \in BOOLEAN : SetZeroFlag(state)
    \/ \E state \in BOOLEAN : SetOverflowFlag(state)
    \/ \E state \in BOOLEAN : SetNegativeFlag(state)

SpecStatus == InitStatus /\ [][NextStatus]_vars

(***************************************************************************)
(* Single instructions: run finds the CPU in a state of its owner's making *)
(* (the fields of CPU are pub) with one instruction at the program origin, *)
(* its operand laid out for the addressing mode, and executes it.          *)
(***************************************************************************)
\* The bytes at the edges of the unsigned and the signed range, and between.
EdgeBytes == {\h00, \h01, \h02, \h3F, \h40, \h7F, \h80, \h81, \hC0, \hFE, \hFF}

\* P with all of C, Z, V, N clear or set, and each with the carry the other way.
EdgeStatus == {\h00, \h01, \hC2, \hC3}

\* Where the operand lives: the index registers, the stack pointer, the zero-page
\* cell z the instruction names (after indexing) and the target address t of the
\* absolute and indirect modes.  The second wraps the zero-page index and the
\* pointer's high byte (z = 0xFF, its high byte at 0x00); the third has its target
\* at the last cell of the array and the fourth at 0xFFFF.
Layouts ==
    { [x |-> \h00, y |-> \h00, s |-> \hFF, z |-> \h10, t |-> \h0200],
      [x |-> \h01, y |-> \hFF, s |-> \h00, z |-> \hFF, t |-> \h02FF],
      [x |-> \hFF, y |-> \h01, s |-> \h80, z |-> \h00, t |-> \hFFFE],
      [x |-> \h02, y |-> \h02, s |-> \h7F, z |-> \h80, t |-> \hFFFF] }

\* Every register holding v: the layout for the instructions without an operand.
AllRegisters(v) == [x |-> v, y |-> v, s |-> v, z |-> \h10, t |-> \h0200]

\* The opcode bytes put under test: every byte of the table and three outside it.
StepCodes == DOMAIN OPCODES_MAP \cup {\h02, \hEA, \hFF}

ModeOf(code) == IF code \in DOMAIN OPCODES_MAP THEN OPCODES_MAP[code].mode ELSE "NoneAddressing"

\* mem with the byte b at addr, when addr is a cell of the array.
Poke(mem, addr, b) == IF InBounds(addr) THEN write(mem, addr, b) ELSE mem

\* mem with the word w at addr and the cell after it.
PokeWord(mem, addr, w) == Poke(Poke(mem, addr, w % 256), addr + 1, w \div 256)

\* mem with the instruction `code` at the address `at` and the operand value v
\* where the addressing mode of `code` finds it under the layout.
LaidAt(mem, at, code, v, lay) ==
    LET mode == ModeOf(code)
        pc == at + 1
        data == Poke(mem, lay.t, v)
        zdata == Poke(mem, lay.z, v)
        pointer(w) == Poke(Poke(data, lay.z, w % 256), (lay.z + 1) % 256, w \div 256)
        operands ==
            CASE mode \in {"Immediate", "Relative"} -> Poke(mem, pc, v)
              [] mode = "ZeroPage" -> Poke(zdata, pc, lay.z)
              [] mode = "ZeroPage_X" -> Poke(zdata, pc, (lay.z - lay.x + 256) % 256)
              [] mode = "ZeroPage_Y" -> Poke(zdata, pc, (lay.z - lay.y + 256) % 256)
              [] mode = "Absolute" -> PokeWord(data, pc, lay.t)
              [] mode = "Absolute_X" -> PokeWord(data, pc, (lay.t - lay.x + Word16) % Word16)
              [] mode = "Absolute_Y" -> PokeWord(data, pc, (lay.t - lay.y + Word16) % Word16)
              [] mode = "Indirect_X" ->
                    Poke(pointer(lay.t), pc, (lay.z - lay.x + 256) % 256)
              [] mode = "Indirect_Y" ->
                    Poke(pointer((lay.t - lay.y + Word16) % Word16), pc, lay.z)
              [] OTHER -> mem
    IN  Poke(operands, at, code)

\* The memory with the instruction `code` at the program origin and the operand
\* value v where the addressing mode of `code` finds it under the layout.
Laid(code, v, lay) == LaidAt(NewMemory, ProgramOrigin, code, v, lay)

\* run is about to fetch `code` at the address `at`, with A = a, P = p, the
\* registers of the layout and the operand value v.
AtInstructionAt(at, code, v, a, p, lay, checks) ==
    /\ register_a = a
    /\ register_x = lay.x
    /\ register_y = lay.y
    /\ register_s = lay.s
    /\ status = p
    /\ program_counter = at
    /\ memory = LaidAt(NewMemory, at, code, v, lay)
    /\ panic = "none"
    /\ control = "running"
    /\ overflow_checks = checks
    /\ calls = 1
    /\ last_call = [op |-> "run", arg |-> 0, data |-> 0]
    /\ last = NoFetch

\* run is about to fetch `code` at the program origin.
AtInstruction(code, v, a, p, lay, checks) ==
    AtInstructionAt(ProgramOrigin, code, v, a, p, lay, checks)

\* Every instruction with the edge values under every layout, in both build
\* profiles; and every instruction with each of the 256 operand values (each of the
\* 256 register values, for an instruction without an operand).
InitStep ==
    \/ \E code \in StepCodes, v \in EdgeBytes, a \in EdgeBytes, p \in EdgeStatus,
          lay \in Layouts, checks \in BOOLEAN :
          AtInstruction(code, v, a, p, lay, checks)
    \/ \E code \in StepCodes, v \in Byte, p \in {\h00, \h01} :
          \/ AtInstruction(code, v, v, p, AllRegisters(v), TRUE)
          \/ \E lay \in Layouts : AtInstruction(code, v, \hFF, p, lay, TRUE)

NextStep == RunStep

SpecStep == InitStep /\ [][NextStep]_vars

\* ADC alone: the immediate encoding with every accumulator, every operand and
\* either carry; the other seven encodings with the edge values under every layout.
InitAdc ==
    \/ \E a \in Byte, v \in Byte, p \in {\h00, \h01} :
          AtInstruction(\h69, v, a, p, AllRegisters(0), TRUE)
    \/ \E code \in {\h65, \h75, \h6D, \h7D, \h79, \h61, \h71}, v \in EdgeBytes,
          a \in EdgeBytes, p \in EdgeStatus, lay \in Layouts, checks \in BOOLEAN :
          AtInstruction(code, v, a, p, lay, checks)

SpecAdc == InitAdc /\ [][NextStep]_vars

\* SBC alone: the immediate encoding with every accumulator, every operand and
\* either carry; the other seven encodings with the edge values under every layout.
InitSbc ==
    \/ \E a \in Byte, v \in Byte, p \in {\h00, \h01} :
          AtInstruction(\hE9, v, a, p, AllRegisters(0), TRUE)
    \/ \E code \in {\hE5, \hF5, \hED, \hFD, \hF9, \hE1, \hF1}, v \in EdgeBytes,
          a \in EdgeBytes, p \in EdgeStatus, lay \in Layouts, checks \in BOOLEAN :
          AtInstruction(code, v, a, p, lay, checks)

SpecSbc == InitSbc /\ [][NextStep]_vars

\* The compares alone: CMP, CPX and CPY in the immediate encoding with every
\* register value and every operand, the flags C, N set and Z, V clear or the
\* other way round; all fourteen encodings with the edge values under every layout.
InitCompare ==
    \/ \E code \in {\hC9, \hE0, \hC0}, r \in Byte, v \in Byte, p \in {\h42, \h81} :
          AtInstruction(code, v, r, p, AllRegisters(r), TRUE)
    \/ \E code \in {\hC9, \hC5, \hD5, \hCD, \hDD, \hD9, \hC1, \hD1,
                     \hE0, \hE4, \hEC, \hC0, \hC4, \hCC},
          v \in EdgeBytes, a \in EdgeBytes, p \in EdgeStatus, lay \in Layouts,
          checks \in BOOLEAN :
          AtInstruction(code, v, a, p, lay, checks)

SpecCompare == InitCompare /\ [][NextStep]_vars

\* Where the instruction under test lies: in the zero page, at the program origin,
\* and at the last addresses from which an instruction of three, two and one bytes
\* fits below the end of the array.
Origins == {\h0040, ProgramOrigin, \hFFFC, \hFFFD, \hFFFE}

BranchCodes == {\h90, \hB0, \hF0}

\* The sequencing of run: each branch with every displacement byte and the flags
\* C and Z either way, and every other instruction with edge operands under every
\* layout, at each of the origins, in both build profiles.
InitSequence ==
    \/ \E code \in BranchCodes, d \in Byte, p \in EdgeStatus, at \in Origins,
          checks \in BOOLEAN :
          AtInstructionAt(at, code, d, \h55, p, AllRegisters(\h55), checks)
    \/ \E code \in StepCodes \ BranchCodes, v \in {\h00, \h80, \hFF}, p \in {\h00, \hC3},
          lay \in Layouts, at \in Origins, checks \in BOOLEAN :
          AtInstructionAt(at, code, v, \h01, p, lay, checks)

SpecSequence == InitSequence /\ [][NextStep]_vars

(***************************************************************************)
(* Two instructions in a row at the program origin.  last_call keeps what  *)
(* the run was started with: the operand value in arg, and in data the     *)
(* status register (rotates) or the target address (stores).               *)
(***************************************************************************)
\* run is about to fetch the first of two instructions laid in `mem`.
AtPair(mem, a, p, lay, arg, data) ==
    /\ register_a = a
    /\ register_x = lay.x
    /\ register_y = lay.y
    /\ register_s = lay.s
    /\ status = p
    /\ program_counter = ProgramOrigin
    /\ memory = mem
    /\ panic = "none"
    /\ control = "running"
    /\ overflow_checks = TRUE
    /\ calls = 1
    /\ last_call = [op |-> "run", arg |-> arg, data |-> data]
    /\ last = NoFetch

\* The opcode bytes of ROL and of ROR in the modes Accumulator, ZeroPage,
\* ZeroPage_X, Absolute, Absolute_X.
RolCodes == <<\h2A, \h26, \h36, \h2E, \h3E>>
RorCodes == <<\h6A, \h66, \h76, \h6E, \h7E>>

\* The instruction `first` on an operand holding v, then `second` on the same operand.
LaidPair(first, second, v, lay) ==
    LaidAt(Laid(first, v, lay), ProgramOrigin + OPCODES_MAP[first].len, second, v, lay)

\* ROL then ROR, and ROR then ROL, on the same operand in each of the five modes,
\* with every operand value, either carry and the other flags clear or set.
InitRotate ==
    \E i \in 1..Len(RolCodes), rol_first \in BOOLEAN, v \in Byte, p \in EdgeStatus,
       lay \in Layouts :
        LET first == IF rol_first THEN RolCodes[i] ELSE RorCodes[i]
            second == IF rol_first THEN RorCodes[i] ELSE RolCodes[i]
        IN  AtPair(LaidPair(first, second, v, lay), v, p, lay, v, p)

SpecRotate == InitRotate /\ [][NextStep]_vars

\* The loads that leave v in a register (immediate, and from the zero-page cell
\* 0x20), each with the stores of the same register.
LoadCodes == [A |-> {\hA9, \hA5}, X |-> {\hA2, \hA6}, Y |-> {\hA0, \hA4}]
StoreCodes ==
    [A |-> {\h85, \h95, \h8D, \h9D, \h99, \h81, \h91},
     X |-> {\h86, \h96, \h8E},
     Y |-> {\h84, \h94, \h8C}]

\* The cell the loads from memory read.
LoadCell == [x |-> 0, y |-> 0, s |-> 0, z |-> \h20, t |-> \h20]

\* Where the stores write: targets at the ends of the zero page, of the stack page
\* and of 0x0000..0x7FFF; the third has the pointer of the indirect modes at the
\* target itself.
StoreLayouts ==
    { [x |-> \h00, y |-> \h00, s |-> \hFF, z |-> \h10, t |-> \h0200],
      [x |-> \h01, y |-> \hFF, s |-> \h00, z |-> \hFF, t |-> \h7FFF],
      [x |-> \hFF, y |-> \h01, s |-> \h80, z |-> \h00, t |-> \h0000],
      [x |-> \h02, y |-> \h02, s |-> \h7F, z |-> \h80, t |-> \h01FF] }

\* The address the store `code` writes under the layout.
StoreTarget(code, lay) ==
    IF ModeOf(code) \in {"ZeroPage", "ZeroPage_X", "ZeroPage_Y"} THEN lay.z ELSE lay.t

\* A load of v, then a store of the same register to a target that holds 255 - v.
InitLoadStore ==
    \E r \in {"A", "X", "Y"}, v \in Byte, p \in {\h00, \hC3}, lay \in StoreLayouts :
        \E ld \in LoadCodes[r], st \in StoreCodes[r] :
            AtPair(LaidAt(LaidAt(NewMemory, ProgramOrigin + 2, st, 255 - v, lay),
                          ProgramOrigin, ld, v, LoadCell),
                   255 - v, p, lay, v, StoreTarget(st, lay))

SpecLoadStore == InitLoadStore /\ [][NextStep]_vars

(***************************************************************************)
(* The indexed addressing modes: one store or load at the program origin   *)
(* with an operand byte and an index register of the owner's choice.       *)
(* last_call keeps the operand byte in arg and the pointer word in data.   *)
(***************************************************************************)

\* STA zp,X  STY zp,X  LDA zp,X  STX zp,Y  LDX zp,Y  STA (zp,X)  LDA (zp,X)
\* STA (zp),Y  LDA (zp),Y
AddressingCodes == {\h95, \h94, \hB5, \h96, \hB6, \h81, \hA1, \h91, \hB1}

\* The pointer words of the indirect modes: inside the array, and (by mode) at
\* the end of 0x0000..0x7FFF or so near 0xFFFF that adding Y passes it.
PointerWords(mode) ==
    CASE mode = "Indirect_X" -> {\h0234, \h7FFF}
      [] mode = "Indirect_Y" -> {\h0234, \hFFF0}
      [] OTHER -> {0}

\* The memory with `code` and its operand byte o at the program origin, the pointer
\* word w in the zero-page cells ptr and (ptr + 1) mod 256, and 0x5A at `target`.
Pointed(code, o, ptr, w, target) ==
    LET marked == Poke(NewMemory, target, \h5A)
        pointer == IF ModeOf(code) \in {"Indirect_X", "Indirect_Y"}
                   THEN Poke(Poke(marked, ptr, w % 256), (ptr + 1) % 256, w \div 256)
                   ELSE marked
    IN  Poke(Poke(pointer, ProgramOrigin + 1, o), ProgramOrigin, code)

\* run is about to fetch `code` with the operand byte o, and idx in the index
\* register of its mode (the other index register holds 0x3C); A = 0xA5.
AtAddressing(code, o, idx, w) ==
    LET mode == ModeOf(code)
        by_x == mode \in {"ZeroPage_X", "Indirect_X"}
        lay == [x |-> IF by_x THEN idx ELSE \h3C, y |-> IF by_x THEN \h3C ELSE idx,
                s |-> \hFF, z |-> 0, t |-> 0]
        ptr == IF mode = "Indirect_X" THEN (o + idx) % 256 ELSE o
        target == CASE mode = "Indirect_X" -> w
                    [] mode = "Indirect_Y" -> (w + idx) % Word16
                    [] OTHER -> (o + idx) % 256
    IN  AtPair(Pointed(code, o, ptr, w, target), \hA5, 0, lay, o, w)

\* Every operand byte with the index values at the edges, and every index value
\* with the operand bytes at the edges.
InitAddressing ==
    \E code \in AddressingCodes, o \in Byte, idx \in Byte :
        /\ o \in EdgeBytes \/ idx \in EdgeBytes
        /\ \E w \in PointerWords(ModeOf(code)) : AtAddressing(code, o, idx, w)

SpecAddressing == InitAddressing /\ [][NextStep]_vars

(***************************************************************************)
(* PHA and BIT alone at the program origin.  For BIT last_call keeps the   *)
(* operand value in arg.                                                   *)
(***************************************************************************)

\* PHA with every accumulator and every stack pointer, the flags clear or set.
InitPush ==
    \E a \in Byte, s \in Byte, p \in {\h00, \hC3} :
        AtInstruction(\h48, 0, a, p, [x |-> \h11, y |-> \h22, s |-> s, z |-> 0, t |-> 0], TRUE)

SpecPush == InitPush /\ [][NextStep]_vars

\* BIT zp with every accumulator and every operand value, the carry set or clear
\* and the other flags the other way; BIT abs with the accumulators at the edges.
InitBit ==
    \/ \E a \in Byte, m \in Byte, p \in {\h01, \hC2} :
          AtPair(Laid(\h24, m, AllRegisters(\h33)), a, p, AllRegisters(\h33), m, 0)
    \/ \E a \in EdgeBytes, m \in Byte, p \in EdgeStatus, lay \in StoreLayouts :
          AtPair(Laid(\h2C, m, lay), a, p, lay, m, 0)

SpecBit == InitBit /\ [][NextStep]_vars

(***************************************************************************)
(* load_and_run of a short program around a BEQ, on a CPU made by CPU::new. *)
(***************************************************************************)

\* LDA #a; EOR #b; BEQ d; LDA #$CC; BRK   and   LDA #a; BEQ d; LDA #$CC; BRK
BeqPrograms ==
    {<<\hA9, a, \h49, b, \hF0, d, \hA9, \hCC, \h00>> :
        a \in {\h00, \h01, \h7F, \h80}, b \in {\h00, \h01, \h7F, \h80},
        d \in {\h00, \h02, \hFC, \hFE}}
    \cup {<<\hA9, a, \hF0, d, \hA9, \hCC, \h00>> :
        a \in {\h00, \h01, \h7F, \h80}, d \in {\h00, \h02, \hFC, \hFE}}

\* A load_and_run that starts the loop without the reset.
load_and_run_without_reset(cpu, program) == load(cpu, program)

\* CPU::load_and_run up to the call of run: load, then reset.
load_and_run(cpu, program) ==
    LET loaded == load(cpu, program)
    IN  IF loaded.panic # "none" THEN loaded ELSE reset(loaded)

\* cpu.load_and_run(program): the program is loaded, the CPU reset and the loop
\* of run begins.
LoadAndRun(program) ==
    /\ control = "idle" /\ calls = 0
    /\ LET started == load_and_run(Cpu, ImageOf(program))
       IN  Becomes(started) /\ control' = Outcome(started, "running")
    /\ calls' = 1
    /\ last_call' = [op |-> "load_and_run", arg |-> Len(program), data |-> 0]
    /\ last' = NoFetch
    /\ UNCHANGED overflow_checks

NextBeq ==
    \/ \E program \in BeqPrograms : LoadAndRun(program)
    \/ RunStep

SpecBeq == Init /\ [][NextBeq]_vars

(***************************************************************************)
(* An increment and the decrement of the same index register, in a row at  *)
(* the program origin.  last_call keeps the starting value in arg.         *)
(***************************************************************************)

\* INX DEX, DEX INX, INY DEY, DEY INY
CountPairs == {<<\hE8, \hCA>>, <<\hCA, \hE8>>, <<\hC8, \h88>>, <<\h88, \hC8>>}

\* Every starting value v of the register counted; the other index register
\* holds v + 0x55 and the accumulator 0x55.
InitCount ==
    \E pair \in CountPairs, v \in Byte, p \in EdgeStatus :
        LET on_x == pair[1] \in {\hE8, \hCA}
            other == (v + \h55) % 256
            lay == [x |-> IF on_x THEN v ELSE other, y |-> IF on_x THEN other ELSE v,
                    s |-> \hFF, z |-> 0, t |-> 0]
            mem == Poke(Poke(NewMemory, ProgramOrigin, pair[1]), ProgramOrigin + 1, pair[2])
        IN  AtPair(mem, \h55, p, lay, v, 0)

SpecCount == InitCount /\ [][NextStep]_vars

(***************************************************************************)
(* load_and_run on two CPUs with the same memory and different registers:  *)
(* the state variables hold the first, last_call keeps the second in data, *)
(* and the loops of the two runs advance together.                         *)
(***************************************************************************)
\* Programs that use registers, flags and memory cells they have not set, and two
\* that end in a panic.
TwinPrograms ==
    { <<\h8A, \h48, \h98, \h48, \h00>>,               \* TXA; PHA; TYA; PHA; BRK
      <<\h69, \h01, \hAA, \h00>>,                      \* ADC #$01; TAX; BRK
      <<\hBA, \h86, \h10, \h00>>,                      \* TSX; STX $10; BRK
      <<\hA5, \h10, \h75, \h10, \h00>>,               \* LDA $10; ADC $10,X; BRK
      <<\hB0, \h02, \hA9, \h11, \hF0, \h01, \hE8, \h00>>, \* BCS; LDA; BEQ; INX; BRK
      <<\h91, \h10, \h00>>,                            \* STA ($10),Y; BRK
      <<\hE8, \h02>>,                                  \* INX; an unknown opcode
      <<\hAD, \hFF, \hFF, \h00>>,                      \* LDA $FFFF; BRK
      <<\hA9, \h01, \h49, \h01, \hF0, \hFE, \hA9, \hCC, \h00>> }

\* The registers of the second CPU.
TwinRegisters(cpu) ==
    [cpu EXCEPT !.register_a = \h5A, !.register_x = \hA5, !.register_y = \h3C,
                !.register_s = \h12, !.status = \hFF, !.program_counter = \h1234]

\* The CPU of the state variables has registers of its owner's making (the fields
\* are pub) over a memory that is new or holds the remains of earlier work.
InitTwin ==
    /\ \E r \in {<<\h00, \h00, \h00, \h00, \h00, \h0000>>,
                  <<\hFF, \hFF, \hFF, \h00, \hC3, \hFFFF>>,
                  <<\h01, \h02, \h03, \h04, \h81, \h8002>>} :
          /\ register_a = r[1] /\ register_x = r[2] /\ register_y = r[3]
          /\ register_s = r[4] /\ status = r[5] /\ program_counter = r[6]
    /\ memory \in {NewMemory,
                    (\h0010 :> \h7F) @@ (\h0011 :> \h02) @@ (\h01FF :> \hEE)
                        @@ (\h8004 :> \hE8) @@ (\hFFFC :> \h34) @@ (\hFFFD :> \h12)}
    /\ panic = "none"
    /\ control = "idle"
    /\ overflow_checks \in BOOLEAN
    /\ calls = 0
    /\ last_call = NoCall
    /\ last = NoFetch

\* The second CPU as `cpu`, with whether its run has ended.
Twin(cpu, ended) == [cpu |-> cpu, ended |-> ended]

\* load_and_run(program) on both CPUs: the loop of run begins on each.
LoadAndRunBoth(program) ==
    /\ control = "idle" /\ calls = 0
    /\ LET started == load_and_run(Cpu, ImageOf(program))
           twin == load_and_run(TwinRegisters(Cpu), ImageOf(program))
       IN  /\ Becomes(started) /\ control' = Outcome(started, "running")
           /\ last_call' = [op |-> "load_and_run", arg |-> Len(program),
                            data |-> Twin(twin, twin.panic # "none")]
    /\ calls' = 1
    /\ last' = NoFetch
    /\ UNCHANGED overflow_checks

\* One iteration of the loop of run on the first CPU, and one on the second
\* unless its run has ended.
RunStepBoth ==
    /\ control = "running"
    /\ LET it == run_iteration(Cpu, overflow_checks)
           twin == last_call.data
           twin_it == run_iteration(twin.cpu, overflow_checks)
       IN  /\ Iterated(it)
           /\ last_call' =
                 [last_call EXCEPT !.data =
                     IF twin.ended THEN twin
                     ELSE Twin(twin_it.cpu, twin_it.returned \/ twin_it.cpu.panic # "none")]
    /\ last' = IF InBounds(program_counter) THEN Fetch ELSE [code |-> -1, at |-> program_counter]
    /\ UNCHANGED <<overflow_checks, calls>>

NextTwin ==
    \/ \E program \in TwinPrograms : LoadAndRunBoth(program)
    \/ RunStepBoth

SpecTwin == InitTwin /\ [][NextTwin]_vars

(***************************************************************************)
(* Single instructions from every status register in which Z and N are not *)
(* both set.                                                               *)
(***************************************************************************)

\* Z alone, N alone, both clear, with the carry and the overflow flag either way.
InitFlags ==
    \E code \in StepCodes, v \in EdgeBytes, a \in EdgeBytes,
       p \in {\h00, \h02, \h80, \h43, \hC1}, lay \in {l \in Layouts : l.x <= 1} :
        AtInstruction(code, v, a, p, lay, TRUE)

SpecFlags == InitFlags /\ [][NextStep]_vars

(***************************************************************************)
(* Properties                                                              *)
(***************************************************************************)
\* The little-endian word held by the two cells of the reset vector.
ResetVectorWord == read(memory, 65532) + 256 * read(memory, 65533)

\* C1: after reset(), from any prior CPU state, A = X = Y = 0, S = 0xFF, P = 0 and
\* PC is the little-endian word formed from memory[0xFFFC] (low) and memory[0xFFFD]
\* (high); reset itself does not fail.
C1_ResetState ==
    last_call.op = "reset" =>
        /\ control = "idle"
        /\ register_a = 0 /\ register_x = 0 /\ register_y = 0
        /\ register_s = 255
        /\ status = 0
        /\ program_counter = ResetVectorWord

\* C1 witness: a reset after a program has run that left the reset vector at 0xFFFE:
\* the program counter is taken from the vector as the program rewrote it.
C1_Witness ==
    /\ last_call.op = "reset" /\ control = "idle"
    /\ calls >= 4
    /\ program_counter = 65534

\* The image handed to the latest load.
LoadedImage == Images[last_call.arg]

\* Every byte of the loaded image is in its place from 0x8000 on.
ImageInPlace(image) ==
    /\ \A i \in DOMAIN image.bytes : read(memory, 32768 + i) = image.bytes[i]
    /\ \A a \in DOMAIN memory :
          (a >= 32768 /\ a < 32768 + image.len) => memory[a] = byte_at(image, a - 32768)

\* C2 as claimed: for every byte sequence load accepts, after load memory[0x8000 + i]
\* = bytes[i] for every i below its length, and memory[0xFFFC] = 0x00, memory[0xFFFD]
\* = 0x80: writing the reset vector alters no byte of the loaded image.
C2_LoadKeepsImageAndVector ==
    (last_call.op = "load" /\ control = "idle") =>
        /\ ImageInPlace(LoadedImage)
        /\ read(memory, 65532) = 0 /\ read(memory, 65533) = 128

\* C3 as claimed: load fails exactly when the image is longer than
\* 0xFFFF - 0x8000 + 1 = 0x8000 bytes.
C3_LoadFailsExactlyAbove8000 ==
    last_call.op = "load" =>
        (control = "panicked" <=> LoadedImage.len > 65535 - 32768 + 1)

\* C4 as claimed: for every 16-bit address, 0xFFFF included, read(addr) and
\* write(addr, b) succeed, and read(addr) after write(addr, b) returns b.
C4_EveryAddressReadsAndWrites ==
    /\ last_call.op = "read" => control = "idle"
    /\ last_call.op = "write" =>
          (control = "idle" /\ read_call(memory, last_call.arg).value = last_call.data)

\* C5 as claimed: for every address, 0xFFFF included, write_u16(addr, w) stores the
\* low byte at addr and the high byte at (addr + 1) mod 65536, and read_u16(addr)
\* afterwards returns w.
C5_WordRoundTripAtEveryAddress ==
    last_call.op = "write_u16" =>
        /\ control = "idle"
        /\ read(memory, last_call.arg) = last_call.data % 256
        /\ read(memory, (last_call.arg + 1) % 65536) = last_call.data \div 256
        /\ read_u16_call(memory, last_call.arg) = [panic |-> "none", memory |-> memory,
                                                    value |-> last_call.data]

\* C6 as claimed: run ends only by returning right after the fetch of opcode 0x00
\* or by the unknown-opcode panic; no other return and no other panic is reachable.
C6_RunEndsByBrkOrUnknownOpcode ==
    last_call.op = "run" =>
        /\ control = "idle" => (last.code = 0 /\ program_counter = last.at + 1)
        /\ control = "panicked" =>
              (panic = UnknownOpcodePanic /\ last.code \notin DOMAIN OPCODES_MAP)

\* The registers and the memory are left as they are by a step.
RegistersAndMemoryUnchanged ==
    /\ register_a' = register_a /\ register_x' = register_x /\ register_y' = register_y
    /\ register_s' = register_s /\ status' = status
    /\ memory' = memory

\* C7: when run returns, the opcode fetched at the program counter a was 0x00 (BRK),
\* the program counter is a + 1, and A, X, Y, S, P and the memory are as before
\* the fetch.
C7_BrkOnlyAdvancesPc ==
    [][(control = "running" /\ control' = "idle") =>
          /\ read(memory, program_counter) = 0
          /\ program_counter' = program_counter + 1
          /\ RegistersAndMemoryUnchanged]_vars

\* C7 witness: run has returned on a BRK with registers, flags and memory that the
\* program before it had set.
C7_Witness ==
    /\ control = "idle" /\ last_call.op = "run"
    /\ last.code = 0 /\ program_counter = last.at + 1
    /\ register_a # 0 /\ status # 0 /\ register_s # 255 /\ DOMAIN memory # {}

\* C8: when the byte at the program counter has no opcode descriptor, the iteration
\* ends the run with the unknown-opcode panic and changes no register, no flag, not
\* the program counter and no memory cell.
C8_UnknownOpcodeChangesNothing ==
    [][(control = "running" /\ InBounds(program_counter)
        /\ read(memory, program_counter) \notin DOMAIN OPCODES_MAP) =>
          /\ control' = "panicked"
          /\ panic' = UnknownOpcodePanic
          /\ program_counter' = program_counter
          /\ RegistersAndMemoryUnchanged]_vars

\* C8 witness: the run of LDA #7 followed by the byte 0x02 has stopped at 0x8002.
C8_Witness ==
    /\ control = "panicked" /\ panic = UnknownOpcodePanic
    /\ last = [code |-> 2, at |-> 32770]
    /\ register_a = 7 /\ program_counter = 32770

\* The instructions that write a result, and where each writes it.
ResultWriters ==
    {"LDA", "LDX", "LDY", "TAX", "TAY", "TXA", "TYA", "TSX", "INX", "INY", "DEX", "DEY",
     "INC", "DEC", "AND", "ORA", "EOR", "ADC", "SBC", "ASL", "LSR", "ROL", "ROR"}

\* The opcode descriptor of the byte at the program counter.
AtPc == OPCODES_MAP[read(memory, program_counter)]

\* The effective address of the operand of the instruction at the program counter.
EffectiveAddress ==
    get_operand_address([Cpu EXCEPT !.program_counter = program_counter + 1], AtPc.mode).addr

\* The value the instruction at the program counter has left in its destination.
WrittenResult ==
    CASE AtPc.mnemonic \in {"LDA", "TXA", "TYA", "AND", "ORA", "EOR", "ADC", "SBC"} -> register_a'
      [] AtPc.mnemonic \in {"LDX", "TAX", "TSX", "INX", "DEX"} -> register_x'
      [] AtPc.mnemonic \in {"LDY", "TAY", "INY", "DEY"} -> register_y'
      [] OTHER -> IF AtPc.mode = "Accumulator" THEN register_a'
                  ELSE read(memory', EffectiveAddress)

\* An iteration of the loop of run executes an instruction of the table to its end.
Executes ==
    /\ control = "running" /\ control' = "running"
    /\ read(memory, program_counter) \in DOMAIN OPCODES_MAP

\* C9: after every load, transfer, increment, decrement, logic, add, subtract,
\* shift and rotate instruction, for every operand value and addressing mode, the
\* zero flag (bit 1 of P) is set exactly when the value written to the destination
\* is 0 and the negative flag (bit 7 of P) exactly when bit 7 of that value is set.
C9_ZeroAndNegativeFollowResult ==
    [][(Executes /\ AtPc.mnemonic \in ResultWriters) =>
          /\ ((status' \div 2) % 2 = 1) <=> (WrittenResult = 0)
          /\ (status' \div 128 = 1) <=> (WrittenResult >= 128)]_vars

\* C9 witness: DEC $10 has taken the cell from 0x00 to 0xFF with Z, V, N and C set
\* before it: Z is now clear, N set, V and C as they were.
C9_Witness ==
    /\ control = "running" /\ last = [code |-> 198, at |-> ProgramOrigin]
    /\ program_counter = ProgramOrigin + 2
    /\ read(memory, 16) = 255 /\ status = 193

\* C10: ADC leaves in A and the carry flag the 9-bit sum of A, the operand and the
\* carry flag before it: A' + 256 * C' = A + operand + C, for every A and operand
\* in 0..255 and either carry.
C10_AdcIsNineBitSum ==
    [][(Executes /\ AtPc.mnemonic = "ADC") =>
          register_a' + 256 * (status' % 2)
              = register_a + read(memory, EffectiveAddress) + (status % 2)]_vars

\* C10 witness: ADC #$FF with A = 0xFF and the carry set has left A = 0xFF and the
\* carry set (0xFF + 0xFF + 1 = 0x1FF).
C10_Witness ==
    /\ control = "running" /\ last = [code |-> 105, at |-> ProgramOrigin]
    /\ read(memory, ProgramOrigin + 1) = 255
    /\ register_a = 255 /\ status % 2 = 1

\* The operand value of the instruction at the program counter.
OperandValue == read(memory, EffectiveAddress)

\* The carry flag (bit 0 of P) and the overflow flag (bit 6 of P) as 0 or 1.
CarryBit(p) == p % 2
OverflowBit(p) == (p \div 64) % 2

\* A byte as a two's-complement value in -128..127.
Signed(b) == IF b >= 128 THEN b - 256 ELSE b

\* C11: SBC leaves A' = (A - op - c) mod 256 and C' = 1 exactly when A - op - c >= 0
\* over the integers, for every A and op in 0..255 and c (the carry flag before the
\* instruction) in {0, 1}.
C11_SbcSubtractsCarryFlag ==
    [][(Executes /\ AtPc.mnemonic = "SBC") =>
          LET d == register_a - OperandValue - CarryBit(status)
          IN  /\ register_a' = (d + 512) % 256
              /\ (CarryBit(status') = 1) <=> (d >= 0)]_vars

\* C11 witness: SBC #$05 with A = 0x10 and the carry set has left A = 0x0A with the
\* carry set (0x10 - 0x05 - 1).
C11_Witness ==
    /\ control = "running" /\ last = [code |-> 233, at |-> ProgramOrigin]
    /\ read(memory, ProgramOrigin + 1) = 5
    /\ register_a = 10 /\ status = 1

\* C12: SBC gives the accumulator and the carry of the 6502 in binary mode, where
\* the borrow is the complement of the carry: A' = (A - op - (1 - C)) mod 256 and
\* C' = 1 exactly when A - op - (1 - C) >= 0.
C12_SbcAsThe6502 ==
    [][(Executes /\ AtPc.mnemonic = "SBC") =>
          LET d == register_a - OperandValue - (1 - CarryBit(status))
          IN  /\ register_a' = (d + 512) % 256
              /\ (CarryBit(status') = 1) <=> (d >= 0)]_vars

\* C13: after ADC, V = 1 exactly when the sum of A and the operand as two's-complement
\* values and the carry flag lies outside -128..127.
C13_AdcSignedOverflow ==
    [][(Executes /\ AtPc.mnemonic = "ADC") =>
          LET sum == Signed(register_a) + Signed(OperandValue) + CarryBit(status)
          IN  (OverflowBit(status') = 1) <=> (sum < -128 \/ sum > 127)]_vars

\* C13 witness: ADC #$00 with A = 0x7F and the carry set has left A = 0x80 with V
\* and N set and the carry clear (127 + 0 + 1 = 128).
C13_Witness ==
    /\ control = "running" /\ last = [code |-> 105, at |-> ProgramOrigin]
    /\ read(memory, ProgramOrigin + 1) = 0
    /\ register_a = 128 /\ status = 192

\* C14: after SBC, V = 1 exactly when the difference A - op - c of A and the operand
\* as two's-complement values (c the carry flag before) lies outside -128..127.
C14_SbcSignedOverflow ==
    [][(Executes /\ AtPc.mnemonic = "SBC") =>
          LET d == Signed(register_a) - Signed(OperandValue) - CarryBit(status)
          IN  (OverflowBit(status') = 1) <=> (d < -128 \/ d > 127)]_vars

\* Both instructions of the pair at the program origin have been executed.
PairDone ==
    /\ control = "running" /\ last_call.op = "run"
    /\ last.at = ProgramOrigin + OPCODES_MAP[read(memory, ProgramOrigin)].len

\* The operand of the rotate at the program origin, as it is now.
RotatedOperand ==
    LET mode == OPCODES_MAP[read(memory, ProgramOrigin)].mode
    IN  IF mode = "Accumulator" THEN register_a
        ELSE read(memory, get_operand_address(
                              [Cpu EXCEPT !.program_counter = ProgramOrigin + 1], mode).addr)

\* C15: for every value v and carry c, after ROL then ROR on the same operand, and
\* after ROR then ROL, the operand is v again and the carry flag is c again.
C15_RotatesUndoEachOther ==
    PairDone =>
        /\ RotatedOperand = last_call.arg
        /\ CarryBit(status) = CarryBit(last_call.data)

\* C15 witness: ROL $10 then ROR $10 on 0x80 with the carry clear and Z set: the
\* cell went through 0x00 with the carry set and holds 0x80 again, the carry clear.
C15_Witness ==
    /\ PairDone /\ last = [code |-> 102, at |-> ProgramOrigin + 2]
    /\ last_call.arg = 128 /\ last_call.data = 194
    /\ read(memory, 16) = 128 /\ status = 192

\* C16: for every value v and every target T in 0x0000..0x7FFF, after LDA, LDX or
\* LDY has loaded v and the STA, STX or STY of the same register has stored to T,
\* memory[T] = v.
C16_StoreAfterLoad ==
    PairDone => read(memory, last_call.data) = last_call.arg

\* C16 witness: LDA #$80 then STA ($FE,X) with X = 1 has written 0x80 to 0x7FFF,
\* which held 0x7F.
C16_Witness ==
    /\ PairDone /\ last = [code |-> 129, at |-> ProgramOrigin + 2]
    /\ read(memory, ProgramOrigin) = 169
    /\ last_call.arg = 128 /\ last_call.data = 32767 /\ read(memory, 32767) = 128

\* The iteration of the loop of run that is about to run fetches a CMP, CPX or CPY.
AtCompare ==
    /\ control = "running"
    /\ read(memory, program_counter) \in DOMAIN OPCODES_MAP
    /\ AtPc.mnemonic \in {"CMP", "CPX", "CPY"}

\* C17: CMP, CPX and CPY change neither A, X, Y, S nor any memory byte, for any
\* operand and addressing mode, and of P no bit other than C (bit 0), Z (bit 1) and
\* N (bit 7).
C17_ComparesOnlyChangeFlags ==
    [][AtCompare =>
          /\ register_a' = register_a /\ register_x' = register_x
          /\ register_y' = register_y /\ register_s' = register_s
          /\ memory' = memory
          /\ (status' \div 4) % 32 = (status \div 4) % 32]_vars

\* C17 witness: CPY $FFFE with Y = 0x01 and the cell holding 0x02 has cleared C and
\* Z and set N, with X = 0xFF, A = 0x80 and S = 0x80 as they were.
C17_Witness ==
    /\ control = "running" /\ last = [code |-> 204, at |-> ProgramOrigin]
    /\ read(memory, 65534) = 2
    /\ register_y = 1 /\ register_x = 255 /\ register_a = 128 /\ register_s = 128
    /\ status = 192

\* The register a compare instruction compares.
ComparedRegister ==
    CASE AtPc.mnemonic = "CMP" -> register_a
      [] AtPc.mnemonic = "CPX" -> register_x
      [] OTHER -> register_y

\* C18: after CMP, CPX or CPY with the register holding r and the operand m, for
\* all 256 x 256 pairs: C = 1 exactly when r >= m, Z = 1 exactly when r = m, and N
\* is bit 7 of (r - m) mod 256.
C18_CompareFlags ==
    [][(AtCompare /\ control' = "running") =>
          LET r == ComparedRegister
              m == OperandValue
          IN  /\ (CarryBit(status') = 1) <=> (r >= m)
              /\ ((status' \div 2) % 2 = 1) <=> (r = m)
              /\ (status' \div 128 = 1) <=> ((r - m + 256) % 256 >= 128)]_vars

\* C18 witness: CMP #$20 with A = 0x10, Z and V set before: C and Z are clear, N is
\* set (0x10 - 0x20 = 0xF0) and V as it was.
C18_Witness ==
    /\ control = "running" /\ last = [code |-> 201, at |-> ProgramOrigin]
    /\ read(memory, ProgramOrigin + 1) = 32
    /\ register_a = 16 /\ status = 192

\* The iteration of the loop of run that is about to run fetches a branch.
AtBranchInstruction ==
    /\ control = "running"
    /\ read(memory, program_counter) \in DOMAIN OPCODES_MAP
    /\ AtPc.mnemonic \in {"BCC", "BCS", "BEQ"}

\* The condition of the branch at the program counter holds.
BranchCondition ==
    CASE AtPc.mnemonic = "BCC" -> CarryBit(status) = 0
      [] AtPc.mnemonic = "BCS" -> CarryBit(status) = 1
      [] OTHER -> (status \div 2) % 2 = 1

\* Where the opcode after the branch at the program counter is fetched from.
AfterBranch ==
    IF BranchCondition
    THEN (program_counter + 2 + Signed(read(memory, program_counter + 1)) + Word16) % Word16
    ELSE (program_counter + 2) % Word16

\* C19: after a branch (BCC, BCS, BEQ) at a with the displacement byte d in the
\* cell a + 1, the next opcode is fetched from (a + 2 + signed(d)) mod 65536 when
\* its condition holds and from a + 2 when it does not, and no register, flag or
\* memory byte other than the program counter has changed.
C19_BranchTarget ==
    [][(AtBranchInstruction /\ InBounds(program_counter + 1)) =>
          /\ control' = "running"
          /\ program_counter' = AfterBranch
          /\ RegistersAndMemoryUnchanged]_vars

\* The iteration of the loop of run that is about to run fetches an instruction
\* of the table other than BRK.
AtInstructionOfTable ==
    /\ control = "running"
    /\ read(memory, program_counter) \in DOMAIN OPCODES_MAP
    /\ AtPc.mnemonic # "BRK"

\* C20: an instruction other than a branch and BRK, fetched at a with the descriptor
\* length L, leaves the program counter at a + L for the next fetch; when its handler
\* panics on an index of the memory the program counter is a + 1, where the fetch
\* left it, and nothing more is fetched.  A branch that does not panic is followed
\* by the byte after its displacement byte or that byte moved by the displacement.
C20_OperandBytesAreSkipped ==
    [][AtInstructionOfTable =>
          IF AtBranchInstruction
          THEN panic' = "none" => program_counter' = AfterBranch
          ELSE \/ /\ panic' = "none" /\ control' = "running"
                  /\ program_counter' = program_counter + AtPc.len
               \/ /\ panic' = IndexPanic /\ control' = "panicked"
                  /\ program_counter' = program_counter + 1]_vars

\* C20 witness: LDA $FFFE,X at 0xFFFC, the last place a three-byte instruction
\* fits, has been executed and the program counter is 0xFFFF.
C20_Witness ==
    /\ control = "running" /\ last = [code |-> 189, at |-> 65532]
    /\ program_counter = 65535 /\ panic = "none"

\* Where the program counter is after the instruction at the program counter, by
\* arithmetic modulo 65536: one past a BRK, the target of a branch, and the length
\* of the descriptor past any other instruction.
NextPc ==
    IF AtPc.mnemonic = "BRK" THEN (program_counter + 1) % Word16
    ELSE IF AtBranchInstruction THEN AfterBranch
    ELSE (program_counter + AtPc.len) % Word16

\* C21: every update of the program counter wraps modulo 65536 and never faults:
\* an instruction that does not fault on an index of the memory leaves the program
\* counter at (PC + k) mod 65536, also when PC is at or near 0xFFFF.
C21_PcUpdatesWrap ==
    [][(control = "running" /\ read(memory, program_counter) \in DOMAIN OPCODES_MAP
        /\ panic' # IndexPanic) =>
          /\ panic' = "none"
          /\ program_counter' = NextPc]_vars

\* The operand byte of the instruction at the program counter.
OperandByte == read(memory, program_counter + 1)

\* The run is about to execute its first instruction, one of `modes`.
AtAddressingMode(modes) ==
    /\ control = "running"
    /\ program_counter = ProgramOrigin
    /\ read(memory, program_counter) \in AddressingCodes
    /\ AtPc.mode \in modes

\* The instruction at the program counter is a store or a load, and its step
\* completes with addr as its effective address: a store writes its register to
\* addr and nothing else; a load takes its register from addr and writes nothing.
UsesAddress(addr) ==
    LET m == AtPc.mnemonic
    IN  /\ panic' = "none"
        /\ CASE m = "STA" -> memory' = write(memory, addr, register_a)
              [] m = "STX" -> memory' = write(memory, addr, register_x)
              [] m = "STY" -> memory' = write(memory, addr, register_y)
              [] m = "LDA" -> register_a' = read(memory, addr) /\ memory' = memory
              [] m = "LDX" -> register_x' = read(memory, addr) /\ memory' = memory
              [] OTHER -> FALSE

\* C22: ZeroPageX and ZeroPageY have the effective address (operand + index)
\* mod 256: always in the zero page, wrapping past 0xFF to 0x00.
C22_ZeroPageIndexWraps ==
    [][AtAddressingMode({"ZeroPage_X", "ZeroPage_Y"}) =>
          UsesAddress((OperandByte + (IF AtPc.mode = "ZeroPage_X" THEN register_x
                                      ELSE register_y)) % 256)]_vars

\* STA $FF,X with X = 1 has stored A in the cell 0x0000.
C22_Witness ==
    /\ last = [code |-> \h95, at |-> ProgramOrigin]
    /\ last_call.arg = \hFF
    /\ register_x = \h01
    /\ read(memory, \h0000) = \hA5
    /\ read(memory, \h0100) = 0

\* The word in the zero-page cells ptr (low byte) and (ptr + 1) mod 256 (high byte).
ZeroPageWord(ptr) == read(memory, (ptr + 1) % 256) * 256 + read(memory, ptr)

\* C23: IndirectX reads its pointer at p = (operand + X) mod 256 and IndirectY at
\* p = operand, the low byte from p and the high byte from (p + 1) mod 256, both
\* in the zero page; IndirectY then adds Y to the pointer modulo 65536.
C23_PointerBytesInZeroPage ==
    [][AtAddressingMode({"Indirect_X", "Indirect_Y"}) =>
          LET addr == IF AtPc.mode = "Indirect_X"
                      THEN ZeroPageWord((OperandByte + register_x) % 256)
                      ELSE (ZeroPageWord(OperandByte) + register_y) % Word16
          IN  InBounds(addr) => UsesAddress(addr)]_vars

\* STA ($FF),Y with the pointer 0xFFF0 in the cells 0xFF and 0x00 and Y = 0x20 has
\* stored A in the cell 0x0010.
C23_Witness ==
    /\ last = [code |-> \h91, at |-> ProgramOrigin]
    /\ last_call = [op |-> "run", arg |-> \hFF, data |-> \hFFF0]
    /\ register_y = \h20
    /\ read(memory, \h00FF) = \hF0 /\ read(memory, \h0000) = \hFF
    /\ read(memory, \h0010) = \hA5

\* C24: TXS copies X to S and performs no flag update: P is unchanged for every X
\* and every prior P.
C24_TxsLeavesFlags ==
    [][(control = "running" /\ read(memory, program_counter) = \h9A) =>
          /\ register_s' = register_x
          /\ status' = status]_vars

\* C25: PHA writes A to memory[0x0100 + S] and then S becomes (S - 1) mod 256;
\* A, X, Y, P and every other memory byte are unchanged.
C25_PhaPushesAccumulator ==
    [][(control = "running" /\ read(memory, program_counter) = \h48) =>
          /\ panic' = "none"
          /\ memory' = write(memory, \h0100 + register_s, register_a)
          /\ register_s' = (register_s + 255) % 256
          /\ UNCHANGED <<register_a, register_x, register_y, status>>]_vars

\* PHA with S = 0x00 and A = 0x7F has written the cell 0x0100 and left S = 0xFF.
C25_Witness ==
    /\ last = [code |-> \h48, at |-> ProgramOrigin]
    /\ register_a = \h7F
    /\ register_s = \hFF
    /\ read(memory, \h0100) = \h7F

\* C29: BIT with the operand value m sets Z = ((A AND m) = 0), V = bit 6 of m and
\* N = bit 7 of m; A, X, Y, S, the carry flag and the memory are unchanged.
C29_BitTestsOperand ==
    [][(control = "running" /\ program_counter = ProgramOrigin
        /\ read(memory, program_counter) \in {\h24, \h2C}) =>
          LET m == last_call.arg
          IN  /\ panic' = "none"
              /\ (get_zero_flag(status') = 1) = (And8(register_a, m) = 0)
              /\ get_overflow_flag(status') = (m \div 64) % 2
              /\ get_negative_flag(status') = m \div 128
              /\ get_carry_flag(status') = get_carry_flag(status)
              /\ UNCHANGED <<register_a, register_x, register_y, register_s, memory>>]_vars

\* BIT $10 with A = 0x01, the operand 0xC0 and P = 0x01 has left P = 0xC3.
C29_Witness ==
    /\ last = [code |-> \h24, at |-> ProgramOrigin]
    /\ register_a = \h01
    /\ last_call.arg = \hC0
    /\ status = \hC3

\* The bit each setter is for, and what its getter returns.
FlagBit ==
    [set_carry_flag |-> 0, set_zero_flag |-> 1, set_overflow_flag |-> 6,
     set_negative_flag |-> 7]

FlagGetter(op, p) ==
    CASE op = "set_carry_flag" -> get_carry_flag(p)
      [] op = "set_zero_flag" -> get_zero_flag(p)
      [] op = "set_overflow_flag" -> get_overflow_flag(p)
      [] op = "set_negative_flag" -> get_negative_flag(p)

\* C26: after a flag setter (carry, zero, overflow, negative) called with b on any
\* P, the getter of the flag returns b and the other seven bits of P are as before.
C26_SettersChangeOneBit ==
    last_call.op \in DOMAIN FlagBit =>
        /\ FlagGetter(last_call.op, status) = last_call.arg
        /\ \A i \in 0..7 \ {FlagBit[last_call.op]} :
              (status \div Pow2(i)) % 2 = (last_call.data \div Pow2(i)) % 2

\* set_overflow_flag(false) on P = 0xFF has left P = 0xBF.
C26_Witness ==
    /\ last_call = [op |-> "set_overflow_flag", arg |-> 0, data |-> \hFF]
    /\ status = \hBF

\* load_and_run was called with `program`, which is in the memory as loaded.
RunsProgram(program) ==
    /\ last_call.op = "load_and_run"
    /\ memory = load(new, ImageOf(program)).memory

\* C27: a taken BEQ with the displacement 0xFE does not trap the execution:
\* load_and_run of A9 01 49 01 F0 FE A9 CC 00 terminates, with A = 0xCC and
\* PC = 0x8009.  The loop of run is deterministic, so it cannot end from an iteration
\* that leaves the CPU as it found it: the run is never at such an iteration, does
\* not panic, and has the stated result when it returns.
C27_BeqBackTwoTerminates ==
    RunsProgram(<<\hA9, \h01, \h49, \h01, \hF0, \hFE, \hA9, \hCC, \h00>>) =>
        /\ control = "running" => run_iteration(Cpu, overflow_checks).cpu # Cpu
        /\ control # "panicked"
        /\ control = "idle" => (register_a = \hCC /\ program_counter = \h8009)

\* C28: when BEQ is not taken because Z is clear, the run of A9 7F F0 02 A9 CC 00
\* ends with A = 0x7F and PC = 0x8007.
C28_BeqNotTakenResult ==
    (RunsProgram(<<\hA9, \h7F, \hF0, \h02, \hA9, \hCC, \h00>>) /\ control = "idle") =>
        (register_a = \h7F /\ program_counter = \h8007)

\* C30: STA, STX and STY write the source register to the effective address and
\* update no flag: P, A, X, Y and S are unchanged, and the memory afterwards is the
\* memory before with the register at the effective address.
C30_StoresOnlyWriteTheTarget ==
    [][(Executes /\ AtPc.mnemonic \in {"STA", "STX", "STY"}) =>
          LET src == CASE AtPc.mnemonic = "STA" -> register_a
                       [] AtPc.mnemonic = "STX" -> register_x
                       [] AtPc.mnemonic = "STY" -> register_y
          IN  /\ memory' = write(memory, EffectiveAddress, src)
              /\ UNCHANGED <<status, register_a, register_x, register_y, register_s>>]_vars

\* STX $00 with X = 0xFF and P = 0x00 has written 0xFF to the cell 0x0000 and left
\* P = 0x00.
C30_Witness ==
    /\ last = [code |-> \h86, at |-> ProgramOrigin]
    /\ register_x = \hFF
    /\ read(memory, \h0000) = \hFF
    /\ status = \h00

\* The operand of the shift at the program counter: the accumulator or the memory cell.
ShiftedOperand == IF AtPc.mode = "Accumulator" THEN register_a ELSE OperandValue

\* C31: shifts lose no bit: after ASL of v the new value v2 and the carry c satisfy
\* 256 * c + v2 = 2 * v, and after LSR they satisfy 2 * v2 + c = v and N = 0,
\* whatever the carry was before.
C31_ShiftsLoseNoBit ==
    [][(Executes /\ AtPc.mnemonic \in {"ASL", "LSR"}) =>
          LET v == ShiftedOperand
              v2 == WrittenResult
              c == status' % 2
          IN  IF AtPc.mnemonic = "ASL"
              THEN 256 * c + v2 = 2 * v
              ELSE 2 * v2 + c = v /\ status' \div 128 = 0]_vars

\* LSR A on 0x81 with the carry set has left A = 0x40 with the carry set and
\* neither Z nor N.
C31_Witness ==
    /\ last = [code |-> \h4A, at |-> ProgramOrigin]
    /\ register_a = \h40
    /\ status = \h01
    /\ register_x = \h81

\* C32: INX, INY, DEX and DEY change their register by exactly +1 or -1 modulo 256
\* and take Z and N from the changed register; the decrement after the increment
\* (or the increment after the decrement) restores the register for every
\* starting value.
C32_CountByOne ==
    [][(control = "running" /\ AtPc.mnemonic \in {"INX", "INY", "DEX", "DEY"}) =>
          LET on_x == AtPc.mnemonic \in {"INX", "DEX"}
              r == IF on_x THEN register_x ELSE register_y
              r2 == IF on_x THEN register_x' ELSE register_y'
              d == IF AtPc.mnemonic \in {"INX", "INY"} THEN 1 ELSE 255
          IN  /\ panic' = "none"
              /\ r2 = (r + d) % 256
              /\ ((status' \div 2) % 2 = 1) = (r2 = 0)
              /\ (status' \div 128 = 1) = (r2 >= 128)
              /\ program_counter = ProgramOrigin + 1 => r2 = last_call.arg]_vars

\* INX on X = 0xFF has left X = 0x00 with Z set and N clear, and the DEX after it
\* has left X = 0xFF again with Z clear and N set.
C32_Witness ==
    /\ last = [code |-> \hCA, at |-> ProgramOrigin + 1]
    /\ last_call.arg = \hFF
    /\ register_x = \hFF
    /\ status = \h80

\* C33: in no state reachable by run is the addressing resolver invoked with a mode
\* that has no address (Accumulator, NoneAddressing): the resolver's panic for such
\* a mode never happens, whatever instruction of the table is executed.
C33_ResolverGetsAnAddressMode == panic # ModePanic

\* ASL A on 0x01 and TAX (an implied instruction) on 0x80 have executed without
\* a panic.
C33_Witness ==
    /\ panic = "none"
    /\ \/ last = [code |-> \h0A, at |-> ProgramOrigin] /\ register_a = \h02
          /\ register_x = \h01
       \/ last = [code |-> \hAA, at |-> ProgramOrigin] /\ register_x = \h80
          /\ status = \h80

\* C34: in every state reachable from reset by any sequence of supported
\* instructions, bits 2, 3, 4 and 5 of P are 0.
C34_UnusedStatusBitsStayClear == (status \div 4) % 16 = 0

\* SEC on P = 0xC2 has left P = 0xC3, and CLC on P = 0xC3 has left P = 0xC2.
C34_Witness ==
    \/ last = [code |-> \h38, at |-> ProgramOrigin] /\ status = \hC3 /\ register_a = \hC0
    \/ last = [code |-> \h18, at |-> ProgramOrigin] /\ status = \hC2 /\ register_a = \hC0

\* C35: reset leaves every memory byte unchanged, the loaded program and the reset
\* vector included, so that a reset after a reset is the same as one reset.
C35_ResetKeepsMemory ==
    [][(last_call'.op = "reset" /\ calls' = calls + 1) =>
          /\ panic' = "none"
          /\ memory' = memory
          /\ reset(Cpu') = Cpu']_vars

\* A reset after LDA #$C0; TAX; INX; PHA; BRK has run: the registers are those of
\* reset, the program and the pushed byte are still in the memory.
C35_Witness ==
    /\ last_call.op = "reset" /\ control = "idle"
    /\ last = [code |-> \h00, at |-> ProgramOrigin + 5]
    /\ register_a = 0 /\ register_x = 0 /\ register_s = \hFF
    /\ program_counter = ProgramOrigin
    /\ read(memory, \h01FF) = \hC0
    /\ read(memory, ProgramOrigin + 3) = \hE8

\* C36: load(bytes) changes only memory[0x8000 .. 0x8000 + len(bytes)) and
\* memory[0xFFFC..=0xFFFD]: A, X, Y, S, P, PC and every other memory byte are
\* unchanged, so the bytes of an earlier, longer program beyond the end of the new
\* image survive a second load.
C36_LoadChangesImageAndVectorOnly ==
    [][(last_call'.op = "load" /\ calls' = calls + 1) =>
          LET len == Images[last_call'.arg].len
              written(a) == \/ a >= \h8000 /\ a < \h8000 + len
                            \/ a \in {\hFFFC, \hFFFD}
          IN  /\ UNCHANGED <<register_a, register_x, register_y, register_s, status,
                             program_counter>>
              /\ \A a \in DOMAIN memory \cup DOMAIN memory' :
                    ~written(a) => read(memory', a) = read(memory, a)]_vars

\* load of LDA #$05; BRK over LDA #$C0; TAX; INX; PHA; BRK: the INX and the PHA of the
\* longer program are still at 0x8003 and 0x8004.
C36_Witness ==
    /\ last_call = [op |-> "load", arg |-> 1, data |-> 0]
    /\ read(memory, ProgramOrigin) = \hA9 /\ read(memory, ProgramOrigin + 1) = \h05
    /\ read(memory, ProgramOrigin + 2) = \h00
    /\ read(memory, ProgramOrigin + 3) = \hE8 /\ read(memory, ProgramOrigin + 4) = \h48

\* C37: load_and_run is deterministic and independent of the prior registers: for two
\* CPUs with equal memory and different A, X, Y, S, P and PC, load_and_run of the
\* same program ends with identical registers, flags, PC and memory, or with the
\* same failure.  The two runs agree after the reset and after every iteration of
\* the loop, and end together.
C37_LoadAndRunIgnoresPriorRegisters ==
    last_call.op = "load_and_run" =>
        /\ Cpu = last_call.data.cpu
        /\ last_call.data.ended = (control \in {"idle", "panicked"})

\* TXA; PHA; TYA; PHA; BRK has ended on a CPU whose memory held old bytes: both
\* pushes wrote the 0x00 of the reset registers from S = 0xFF down, over the old
\* byte at 0x01FF.
C37_Witness ==
    /\ last_call.op = "load_and_run" /\ last_call.arg = 5 /\ control = "idle"
    /\ register_s = \hFD /\ register_x = 0 /\ register_y = 0
    /\ read(memory, \h01FF) = 0
    /\ read(memory, \h0010) = \h7F
    /\ program_counter = ProgramOrigin + 5

\* Z and N are both set in the status register p.
ZeroAndNegative(p) == (p \div 2) % 2 = 1 /\ p \div 128 = 1

\* C38: in a run that executes no BIT instruction, Z and N are never both 1 after
\* reset (which clears both): no instruction other than BIT, executed from a state
\* in which they are not both set, leaves them both set.
C38_ZeroAndNegativeExclude ==
    [][(control = "running" /\ read(memory, program_counter) \notin {\h24, \h2C}
        /\ ~ZeroAndNegative(status)) => ~ZeroAndNegative(status')]_vars

\* CMP #$02 with A = 0x01 and P = 0x43 (Z set) has left P = 0xC0: N set, Z clear.
C38_Witness ==
    /\ last = [code |-> \hC9, at |-> ProgramOrigin]
    /\ register_a = \h01
    /\ read(memory, ProgramOrigin + 1) = \h02
    /\ status = \hC0

====
